---- MODULE Spec2Model ----
(***************************************************************************)
(* jscoop: cooperative synchronisation primitives for a single-threaded    *)
(* event loop.  Every handler below runs to completion (no preemption);    *)
(* an awaiter's continuation is a later, separate step.                    *)
(*                                                                         *)
(* Queue waiters are referenced through MaybeWeakRef in src/queues.mjs and *)
(* directly in the later revision kept in src/locks.mjs:300-560.  The      *)
(* model takes deref() to return the Future, i.e. callers keep the Futures *)
(* they were handed reachable.                                             *)
(***************************************************************************)
EXTENDS Integers, Sequences, FiniteSets

\* ---------------------------------------------------------------- bounds
MaxFut == 4        \* Futures created by Lock / Semaphore acquire() calls
MaxValue == 2      \* largest initial Semaphore value explored
MaxReleases == 3   \* Semaphore.release() calls explored
MaxMaxsize == 1    \* largest Queue maxsize explored (0 = unbounded)
MaxItems == 4      \* put() / putNoWait() calls explored
MaxWaiters == 3    \* wait() / get() / getAll() calls explored
MaxThreshold == 2  \* largest options.size explored for wait()
MaxCalls == 4      \* put/putNoWait/wait/get/getAll calls explored in one run
MaxWaits == 2      \* Condition.wait() calls explored
MaxNotify == 2     \* largest n explored for Condition.notify(n)
MaxEventWaits == 4 \* Event.wait() calls explored
MaxCallbacks == 3  \* Future.addImmediateCallback() calls explored
MaxAwaiters == 2   \* awaiters of the Future explored
MaxOutcome == 2    \* distinct results / errors passed to setResult / setError
MaxPending == 1    \* largest UnorderedWorkQueue maxPending explored (0 = not set)
MaxWqCalls == 5    \* UnorderedWorkQueue put() / get() calls explored in one run
MaxLimit == 2      \* largest RateLimiter spec.limit explored
MaxPeriod == 3     \* largest RateLimiter spec.period explored, in clock ticks
MaxRlWaiters == 3  \* RateLimiter wait() calls explored
MaxJoins == 2      \* Queue.join() calls explored
MaxTaskCalls == 3  \* put / get calls explored together with taskDone() and join()
MaxCount == 1      \* largest count passed to Queue.taskDone(count)
MaxCapacity == 2   \* largest maxsize of the bounded queue with several producers
MaxPrio == 3       \* priority keys 1..MaxPrio passed to PriorityQueue.put
MaxPqItems == 3    \* items put into the PriorityQueue
SleepTicks == 2    \* the poll interval of wait(), _sleep(50), in clock ticks of 25 ms

VARIABLES
    fut,        \* Future id -> "unborn" | "pending" | "resolved" | "cancelled"
    resumed,    \* Futures whose awaiter continuation has run
    locked,     \* Lock._locked
    waiting,    \* Lock._waiting (a Set; iteration is insertion order)
    queued,     \* Futures that acquire() put on a wait list
    released,   \* Futures whose holder has called Lock.release()
    birth,      \* Future id -> number of Lock.release() calls before its creation
    value,      \* Semaphore._value
    waiters,    \* Semaphore._waiters
    initValue,  \* the value the Semaphore was constructed with
    releases,   \* number of Semaphore.release() calls so far
    maxsize,    \* Queue._maxsize
    queue,      \* Queue._queue, the buffer
    getters,    \* Queue._getters: getter Futures with what their callback closes
                \* over, [w: the waiter, size, kind: the _callback, done]
    putters,    \* Queue._putters: pending putter Futures, by their put() call
    ready,      \* put() calls whose putter is resolved, continuation not yet run
    unfinishedTasks,  \* Queue._unfinishedTasks
    finished,   \* Queue._finished._isSet
    wfut,       \* Futures returned by wait/get/getAll: [st, result, and the
                \* number of items put before its creation / resolution]
    puts,       \* put call (= item) id -> "unborn" | "suspended" | "done"
    taken,      \* items returned by getNoWait() / getAllNoWait() calls
    inserted,   \* number of items inserted so far
    order,      \* history: the items in the order they entered the buffer
    removed,    \* history: the items in the order they left the buffer
    cwaiting,   \* Condition._waiting: the inner waiters w, by their wait() call
    cw,         \* wait() call -> state of its inner waiter Future w
    cf,         \* wait() call -> state of the Future f it returned
    notifyN,    \* the n of the most recent notify(n) call
    condRaised, \* what the most recent Condition or Lock call / cancel() raised
    isSet,      \* Event._isSet
    ewaiting,   \* Event._waiting, by wait() call
    ef,         \* Event wait() call -> state of the Future it returned
    ewaited,    \* wait() calls whose Future was put on Event._waiting
    df,         \* one Future: its fields, its Promise side, and the callbacks run so far
    dfCall,     \* the most recent step on that Future and what the call returned
    aw,         \* awaiter -> "none", "waiting", or how its continuation was resumed
    maxPending, \* UnorderedWorkQueue._maxPending (0 = not set)
    wqPending,  \* UnorderedWorkQueue._pending: the ids of the jobs in the map
    wqPutters,  \* UnorderedWorkQueue._putters: the Events, by their put() call
    job,        \* put() call (= its job) -> where the call and its job are
    gresumed,   \* UnorderedWorkQueue.get() calls whose continuation has run
    settled,    \* jobs in the order their awaitables settled (their finally callbacks ran)
    iter,       \* the async iterator of the work queue: "idle", "waiting" (in get()) or "ended"
    rlSpec,     \* RateLimiter spec: [limit, period, spread], the period in clock ticks
    rl,         \* RateLimiter state: [age 
    rlw,        \* -> now - first, since 
    rlHist,     \* -> now - last, count]
    jn,         \* join() call -> "unborn", "waiting" (on _finished), "woken" or "done"
    tdone,      \* history: the sum of the counts taskDone() has accepted
    td,         \* history: the last taskDone(n) call, [n, before, threw]
    pq,         \* PriorityQueue._queue: sequence of [prio, item], highest key first
    pqOut,      \* history: the entries get handed out, in order
    pqRev,      \* which revision of PriorityQueue._put the queue runs: "sort" or "shortcut"
    qerr        \* the error the last non-waiting Queue call threw: "none", "QueueFull" or "QueueEmpty"

vars == <<fut, resumed, locked, waiting, queued, released, birth,
          value, waiters, initValue, releases,
          maxsize, queue, getters, putters, ready, unfinishedTasks, finished,
          wfut, puts, taken, inserted, order, removed,
          cwaiting, cw, cf, notifyN, condRaised,
          isSet, ewaiting, ef, ewaited,
          df, dfCall, aw,
          maxPending, wqPending, wqPutters, job, gresumed,
          settled, iter,
          rlSpec, rl, rlw, rlHist,
          jn, tdone, td,
          pq, pqOut, pqRev,
          qerr>>

lockVars == <<locked, waiting, released>>
semVars == <<value, waiters, initValue, releases>>
queueVars == <<maxsize, queue, getters, putters, ready, unfinishedTasks,
               finished, wfut, puts, taken, inserted, order, removed>>
futVars == <<fut, resumed, queued, birth>>
condVars == <<cwaiting, cw, cf, notifyN, condRaised>>
eventVars == <<isSet, ewaiting, ef, ewaited>>
dfVars == <<df, dfCall, aw>>
wqVars == <<maxPending, wqPending, wqPutters, job, gresumed>>
wqHist == <<settled, iter>>
rlVars == <<rlSpec, rl, rlw, rlHist>>
taskVars == <<jn, tdone, td>>
pqVars == <<pq, pqOut, pqRev>>
errVars == <<qerr>>

FutIds == 1..MaxFut
RlWaiterIds == 1..MaxRlWaiters
JoinIds == 1..MaxJoins
ItemIds == 1..MaxItems
WaiterIds == 1..MaxWaiters
WaitIds == 1..MaxWaits
EventWaitIds == 1..MaxEventWaits
CallbackIds == 1..MaxCallbacks
AwaiterIds == 1..MaxAwaiters
Outcomes == 1..MaxOutcome

\* a Future wait/get/getAll has not created yet
NoWaiter == [st |-> "unborn", result |-> <<>>, born |-> 0, at |-> 0, size |-> 0, kind |-> "none"]

\* ---------------------------------------------------------------- Future
\* Future.done(): !this._pending
Done(st) == st \in {"resolved", "cancelled"}

Unborn == {f \in FutIds : fut[f] = "unborn"}

\* new Future(): ids are handed out in creation order
NewFut == CHOOSE f \in Unborn : \A g \in Unborn : f <= g

RECURSIVE Remove(_, _)
\* Set.delete(f) on an insertion-ordered Set
Remove(s, f) ==
    IF s = <<>> THEN <<>>
    ELSE IF Head(s) = f THEN Tail(s)
    ELSE <<Head(s)>> \o Remove(Tail(s), f)

RECURSIVE DropDone(_, _)
\* the leading entries a wake-up loop passes over: already done Futures
DropDone(s, ft) ==
    IF s = <<>> THEN <<>>
    ELSE IF Done(ft[Head(s)]) THEN DropDone(Tail(s), ft)
    ELSE s

\* Condition constructor: no waiter yet
CondInit ==
    /\ cwaiting = <<>>
    /\ cw = [c \in WaitIds |-> "unborn"]
    /\ cf = [c \in WaitIds |-> "unborn"]
    /\ notifyN = 0
    /\ condRaised = "none"

\* Event constructor
EventInit ==
    /\ isSet = FALSE
    /\ ewaiting = <<>>
    /\ ef = [e \in EventWaitIds |-> "unborn"]
    /\ ewaited = {}

\* Future constructor; result / error 0 stand for the unset field
NewFuture ==
    [pending |-> TRUE, cancelled |-> FALSE, result |-> 0, error |-> 0,
     promise |-> "pending", callbacks |-> <<>>, ran |-> <<>>, added |-> 0]

DfInit ==
    /\ df = NewFuture
    /\ dfCall = [op |-> "new", ret |-> "returned"]
    /\ aw = [a \in AwaiterIds |-> "none"]

\* UnorderedWorkQueue constructor, without options
WqInit ==
    /\ maxPending = 0
    /\ wqPending = {}
    /\ wqPutters = <<>>
    /\ job = [j \in ItemIds |-> "unborn"]
    /\ gresumed = {}

\* no non-waiting Queue call has thrown
ErrInit == qerr = "none"

\* an empty PriorityQueue
PqEmpty(rev) ==
    /\ pq = <<>>
    /\ pqOut = <<>>
    /\ pqRev = rev

PqInit == PqEmpty("shortcut")

\* no join() and no taskDone() call was made
TaskInit ==
    /\ jn = [k \in JoinIds |-> "unborn"]
    /\ tdone = 0
    /\ td = [n |-> 0, before |-> 0, threw |-> FALSE]

\* a wait() call that was not made yet
NoRlWaiter == [st |-> "unborn", rem |-> 0, slept |-> FALSE, sawReset |-> FALSE]

\* a RateLimiter whose _loadState() has run at this instant and found no stored
\* state: first = Date.now(), last = 0, count = 0
RlFresh(spec) ==
    /\ rlSpec = spec
    /\ rl = [age |-> 0, since |-> spec.period, count |-> 0]
    /\ rlw = [w \in RlWaiterIds |-> NoRlWaiter]
    /\ rlHist = [recent |-> <<>>, grants |-> 0, fresh |-> TRUE]

RlInit == RlFresh([limit |-> 1, period |-> 1, spread |-> FALSE])

\* no job has settled and nobody iterates over the work queue
WqHistInit ==
    /\ settled = <<>>
    /\ iter = "none"

\* ---------------------------------------------------------------- Lock
\* Lock.locked()
LockLocked == locked

\* the immediate callback acquire() registers on a waiter (it also deletes
\* the waiter from _waiting): the new value of _locked
AcquireCallbackBug(lk, cancelled) == lk
AcquireCallback(lk, cancelled) == IF ~cancelled THEN TRUE ELSE lk

\* the waiters release() settles: the first not-done one, then break
LockWokenLifo(ws, ft) ==
    LET live == SelectSeq(ws, LAMBDA f : ~Done(ft[f]))
    IN  IF live = <<>> THEN {} ELSE {live[Len(live)]}
LockWokenBug(ws, ft) == {ws[i] : i \in {j \in 1..Len(ws) : ~Done(ft[ws[j]])}}
LockWoken(ws, ft) ==
    LET live == DropDone(ws, ft)
    IN  IF live = <<>> THEN {} ELSE {Head(live)}

\* Lock.acquire()
LockAcquire ==
    /\ Unborn # {}
    /\ LET f == NewFut
       IN  IF ~locked
           THEN /\ locked' = TRUE
                /\ fut' = [fut EXCEPT ![f] = "resolved"]
                /\ UNCHANGED <<waiting, queued>>
           ELSE /\ fut' = [fut EXCEPT ![f] = "pending"]
                /\ waiting' = Append(waiting, f)
                /\ queued' = queued \cup {f}
                /\ UNCHANGED locked
    /\ birth' = [birth EXCEPT ![NewFut] = Cardinality(released)]
    /\ UNCHANGED <<resumed, released, semVars, queueVars, condVars, eventVars, dfVars, wqVars, wqHist, rlVars, taskVars, pqVars, errVars>>

RECURSIVE RemoveAll(_, _)
RemoveAll(s, fs) ==
    IF s = <<>> THEN <<>>
    ELSE IF Head(s) \in fs THEN RemoveAll(Tail(s), fs)
    ELSE <<Head(s)>> \o RemoveAll(Tail(s), fs)

\* Lock.release() called by holder h; on an unheld lock it throws
LockRelease(h) ==
    /\ fut[h] = "resolved"
    /\ h \notin released
    /\ IF ~locked
       THEN UNCHANGED vars
       ELSE LET woken == LockWoken(waiting, fut)
            IN  /\ fut' = [f \in FutIds |-> IF f \in woken THEN "resolved" ELSE fut[f]]
                /\ locked' = IF woken = {} THEN FALSE ELSE AcquireCallback(FALSE, FALSE)
                /\ waiting' = RemoveAll(waiting, woken)
                /\ released' = released \cup {h}
                /\ UNCHANGED <<resumed, queued, birth, semVars, queueVars, condVars, eventVars, dfVars, wqVars, wqHist, rlVars, taskVars, pqVars, errVars>>

\* Future.cancel() on a pending acquire() Future
LockCancel(f) ==
    /\ fut[f] = "pending"
    /\ f \in queued
    /\ fut' = [fut EXCEPT ![f] = "cancelled"]
    /\ locked' = AcquireCallback(locked, TRUE)
    /\ waiting' = Remove(waiting, f)
    /\ UNCHANGED <<resumed, queued, released, birth, semVars, queueVars, condVars, eventVars, dfVars, wqVars, wqHist, rlVars, taskVars, pqVars, errVars>>

\* the continuation of `await l.acquire()` runs on a later tick
LockResume(f) ==
    /\ fut[f] = "resolved"
    /\ f \notin resumed
    /\ resumed' = resumed \cup {f}
    /\ UNCHANGED <<fut, locked, waiting, queued, released, birth, semVars, queueVars, condVars, eventVars, dfVars, wqVars, wqHist, rlVars, taskVars, pqVars, errVars>>

InitLock ==
    /\ fut = [f \in FutIds |-> "unborn"]
    /\ resumed = {}
    /\ locked = FALSE
    /\ waiting = <<>>
    /\ queued = {}
    /\ released = {}
    /\ birth = [f \in FutIds |-> 0]
    /\ initValue = 1
    /\ value = initValue
    /\ waiters = <<>>
    /\ releases = 0
    /\ maxsize = 0
    /\ queue = <<>>
    /\ getters = <<>>
    /\ putters = <<>>
    /\ ready = <<>>
    /\ unfinishedTasks = 0
    /\ finished = TRUE
    /\ wfut = [w \in WaiterIds |-> NoWaiter]
    /\ puts = [c \in ItemIds |-> "unborn"]
    /\ taken = {}
    /\ inserted = 0
    /\ order = <<>>
    /\ removed = <<>>
    /\ CondInit
    /\ EventInit
    /\ DfInit
    /\ WqInit
    /\ WqHistInit
    /\ RlInit
    /\ TaskInit
    /\ PqInit
    /\ ErrInit

NextLock ==
    \/ LockAcquire
    \/ \E h \in FutIds : LockRelease(h)
    \/ \E f \in FutIds : LockCancel(f)
    \/ \E f \in FutIds : LockResume(f)

SpecLock == InitLock /\ [][NextLock]_vars

\* every holder eventually calls release()
SpecLockFair == SpecLock /\ WF_vars(\E h \in FutIds : LockRelease(h))

\* ------------------------------------------------------------ Lock claims
\* acquire() Futures that resolved and whose holder has not released yet
Held == {f \in FutIds : fut[f] = "resolved" /\ f \notin released}

\* C1: at most one acquire() Future is resolved and unreleased, and locked()
\* is true exactly when there is such a holder; so an acquire() issued while
\* a woken waiter has not resumed yet cannot resolve at once.
C1_MutualExclusion ==
    /\ Cardinality(Held) <= 1
    /\ LockLocked <=> Held # {}

\* a waiter was handed the lock by the latest release(), its continuation has
\* not run, and an acquire() issued after that release() is pending
C1_Witness ==
    \E f \in Held : \E g \in FutIds :
        /\ f \in queued /\ f \notin resumed
        /\ fut[g] = "pending" /\ birth[g] = Cardinality(released)
        /\ birth[g] > birth[f]

PendingWaiters == SelectSeq(waiting, LAMBDA f : fut[f] = "pending")

\* C2: a release() resolves exactly the first pending waiter and leaves the
\* lock held, or resolves nobody and leaves it unlocked when none is pending;
\* with the lock held by 1 and acquires 2, 3 pending, the releases hand the
\* lock to 2, then to 3, then leave it unlocked.
C2_BatonPassing ==
    /\ [][(released' # released) =>
            LET newly == {f \in FutIds : fut[f] # "resolved" /\ fut'[f] = "resolved"}
            IN  /\ \A f \in FutIds \ newly : fut'[f] = fut[f]
                /\ IF PendingWaiters = <<>>
                   THEN newly = {} /\ ~LockLocked'
                   ELSE newly = {Head(PendingWaiters)} /\ LockLocked']_vars
    /\ []((/\ {2, 3} \subseteq queued /\ birth[2] = 0 /\ birth[3] = 0
           /\ fut[2] # "cancelled" /\ fut[3] # "cancelled" /\ fut[4] = "unborn") =>
           /\ Cardinality(released) = 1 => (fut[2] = "resolved" /\ fut[3] = "pending" /\ LockLocked)
           /\ Cardinality(released) = 2 => (fut[3] = "resolved" /\ LockLocked)
           /\ Cardinality(released) = 3 => ~LockLocked)

\* the three releases of the scenario have happened
C2_Witness ==
    /\ released = {1, 2, 3} /\ {2, 3} \subseteq queued
    /\ birth[2] = 0 /\ birth[3] = 0 /\ ~LockLocked

\* C11: a release() grants the lock to a waiter only when every waiter that
\* registered before it is settled; a cancelled waiter stays cancelled and is
\* never a holder; cancelling a pending waiter leaves locked() as it was; and
\* when every holder releases, each pending waiter is eventually granted the
\* lock unless it is cancelled.
C11_FifoGrant ==
    /\ [][\A f \in queued :
            (fut[f] = "pending" /\ fut'[f] = "resolved") =>
                /\ \A g \in queued : g < f => fut[g] # "pending"
                /\ LockLocked']_vars
    /\ [][\A f \in FutIds : fut[f] = "cancelled" => fut'[f] = "cancelled"]_vars
    /\ [][\A f \in FutIds :
            (fut[f] = "pending" /\ fut'[f] = "cancelled") =>
                LockLocked' = LockLocked]_vars
    /\ \A f \in FutIds : (fut[f] = "pending") ~> (fut[f] \in {"resolved", "cancelled"})

\* waiters 2, 3, 4 registered in that order, 2 was cancelled while pending,
\* and the releases granted the lock to 3 and then to 4
C11_Witness ==
    /\ {2, 3, 4} \subseteq queued
    /\ fut[2] = "cancelled" /\ fut[3] = "resolved" /\ fut[4] = "resolved"
    /\ 3 \in released /\ 4 \in Held

\* ---------------------------------------------------------------- Condition
\* Condition.locked / acquire / release are the Lock's methods, bound.

UnbornWaits == {c \in WaitIds : cf[c] = "unborn"}

\* the next wait() call
NewWait == CHOOSE c \in UnbornWaits : \A d \in UnbornWaits : c <= d

\* The immediate callback wait() registers on its inner waiter w starts with
\* `this.acquire.addImmediateCallback(...)`: this.acquire is the bound function
\* itself, not the Future a call of it returns, and a function has no
\* addImmediateCallback.  The callback raises a TypeError before acquire() is
\* called and before `this._waiting.delete(w)`; the error leaves through
\* _runCallbacks and _setDone into whatever settled w.
WaiterCallbackRaises == "TypeError"

\* the waiters notify(n) settles: its loop stops when idx >= n, passes over
\* done waiters, and is left by the error of the first waiter it settles
CondNotified(ws, st, n) ==
    LET live == DropDone(ws, st)
    IN  IF n < 1 \/ live = <<>> THEN {} ELSE {Head(live)}

\* the test wait() and notify() make first: !this.locked()
NotAcquiredBug == FALSE
NotAcquired == ~LockLocked

\* Condition.wait(); rel is the holder whose hold the call gives up
CondWaitCall(rel) ==
    /\ UnbornWaits # {}
    /\ IF NotAcquired
       THEN /\ condRaised' = "Error"
            /\ UNCHANGED <<futVars, lockVars, cwaiting, cw, cf, notifyN>>
       ELSE LET woken == LockWoken(waiting, fut)
                c == NewWait
            IN  /\ fut' = [f \in FutIds |-> IF f \in woken THEN "resolved" ELSE fut[f]]
                /\ locked' = IF woken = {} THEN FALSE ELSE AcquireCallback(FALSE, FALSE)
                /\ waiting' = RemoveAll(waiting, woken)
                /\ released' = released \cup rel
                /\ cf' = [cf EXCEPT ![c] = "pending"]
                /\ cw' = [cw EXCEPT ![c] = "pending"]
                /\ cwaiting' = Append(cwaiting, c)
                /\ condRaised' = "none"
                /\ UNCHANGED <<resumed, queued, birth, notifyN>>
    /\ UNCHANGED <<semVars, queueVars, eventVars, dfVars, wqVars, wqHist, rlVars, taskVars, pqVars, errVars>>

\* Condition.wait() called by holder h
CondWait(h) ==
    /\ fut[h] = "resolved"
    /\ h \notin released
    /\ CondWaitCall({h})

\* the body of notify(n): w.setResult(true) makes w done and runs its callback
Notify(n) ==
    IF NotAcquired
    THEN /\ condRaised' = "Error"
         /\ UNCHANGED <<cw, notifyN>>
    ELSE LET woken == CondNotified(cwaiting, cw, n)
         IN  /\ cw' = [c \in WaitIds |-> IF c \in woken THEN "resolved" ELSE cw[c]]
             /\ notifyN' = n
             /\ condRaised' = IF woken = {} THEN "none" ELSE WaiterCallbackRaises

\* Condition.notify(n) called by holder h
CondNotify(h, n) ==
    /\ fut[h] = "resolved"
    /\ h \notin released
    /\ Notify(n)
    /\ UNCHANGED <<futVars, lockVars, cwaiting, cf, semVars, queueVars, eventVars, dfVars, wqVars, wqHist, rlVars, taskVars, pqVars, errVars>>

\* Condition.notifyAll() called by holder h: notify(this._waiting.size)
CondNotifyAll(h) ==
    /\ fut[h] = "resolved"
    /\ h \notin released
    /\ Notify(Len(cwaiting))
    /\ UNCHANGED <<futVars, lockVars, cwaiting, cf, semVars, queueVars, eventVars, dfVars, wqVars, wqHist, rlVars, taskVars, pqVars, errVars>>

\* cancel() on the pending Future f of wait() call c: f's callback cancels w
\* when w is still pending, and w's callback then raises out of f.cancel()
CondCancel(c) ==
    /\ cf[c] = "pending"
    /\ cf' = [cf EXCEPT ![c] = "cancelled"]
    /\ cw' = [cw EXCEPT ![c] = IF cw[c] = "pending" THEN "cancelled" ELSE cw[c]]
    /\ condRaised' = IF cw[c] = "pending" THEN WaiterCallbackRaises ELSE "none"
    /\ UNCHANGED <<futVars, lockVars, cwaiting, notifyN, semVars, queueVars, eventVars, dfVars, wqVars, wqHist, rlVars, taskVars, pqVars, errVars>>

\* Lock.release() called while nobody holds the lock
LockReleaseUnheld ==
    /\ ~locked
    /\ condRaised' = "Error"
    /\ UNCHANGED <<futVars, lockVars, cwaiting, cw, cf, notifyN, semVars, queueVars, eventVars, dfVars, wqVars, wqHist, rlVars, taskVars, pqVars, errVars>>

\* Condition.wait() called while nobody holds the lock
CondWaitUnheld ==
    /\ ~LockLocked
    /\ CondWaitCall({})

\* Condition.notify(n) called while nobody holds the lock
CondNotifyUnheld(n) ==
    /\ ~LockLocked
    /\ Notify(n)
    /\ UNCHANGED <<futVars, lockVars, cwaiting, cf, semVars, queueVars, eventVars, dfVars, wqVars, wqHist, rlVars, taskVars, pqVars, errVars>>

\* Condition.notifyAll() called while nobody holds the lock
CondNotifyAllUnheld ==
    /\ ~LockLocked
    /\ Notify(Len(cwaiting))
    /\ UNCHANGED <<futVars, lockVars, cwaiting, cf, semVars, queueVars, eventVars, dfVars, wqVars, wqHist, rlVars, taskVars, pqVars, errVars>>

\* Condition constructor with its own Lock
InitCondition == InitLock

NextCondition ==
    \/ LockAcquire
    \/ \E h \in FutIds : LockRelease(h)
    \/ \E f \in FutIds : LockCancel(f)
    \/ \E h \in FutIds : CondWait(h)
    \/ \E h \in FutIds : \E n \in 1..MaxNotify : CondNotify(h, n)
    \/ \E h \in FutIds : CondNotifyAll(h)
    \/ \E c \in WaitIds : CondCancel(c)

SpecCondition == InitCondition /\ [][NextCondition]_vars

\* the Condition with the calls a task makes without holding the lock
NextCondErr ==
    \/ NextCondition
    \/ LockReleaseUnheld
    \/ CondWaitUnheld
    \/ \E n \in 1..MaxNotify : CondNotifyUnheld(n)
    \/ CondNotifyAllUnheld

SpecCondErr == InitCondition /\ [][NextCondErr]_vars

\* every holder eventually calls release()
SpecConditionFair == SpecCondition /\ WF_vars(\E h \in FutIds : LockRelease(h))

\* ------------------------------------------------------- Condition claims
\* waiters a notify has selected
Selected == {c \in WaitIds : cw[c] = "resolved"}

\* the waiters still pending, in registration order
PendingCond == SelectSeq(cwaiting, LAMBDA c : cw[c] = "pending")

\* C12: a wait() step releases the caller's hold (the lock is unlocked or
\* handed to a queued acquire); the Future of wait() resolves only for a
\* waiter a notify selected, in a step that leaves the lock held; and a
\* selected waiter is handed the lock: when the lock is free again its
\* Future has resolved.
C12_WaitReleasesAndReacquires ==
    /\ [][\A c \in WaitIds : (cf[c] = "unborn" /\ cf'[c] = "pending") =>
            /\ Held \cap Held' = {}
            /\ LockLocked' <=> Held' # {}]_vars
    /\ [][\A c \in WaitIds : (cf[c] # "resolved" /\ cf'[c] = "resolved") =>
            c \in Selected' /\ LockLocked']_vars
    /\ [](\A c \in Selected : (cf[c] # "cancelled" /\ ~LockLocked) => cf[c] = "resolved")

\* the waiters whose inner Future a step settles with a result
NewlySelected == {c \in WaitIds : cw[c] = "pending" /\ cw'[c] = "resolved"}

Min(a, b) == IF a < b THEN a ELSE b

\* C13: a notify(n) step selects the first min(n, pending) pending waiters in
\* registration order (notifyAll selects all of them), and the wait() Future of
\* every selected, uncancelled waiter eventually resolves when the holders
\* release the lock.
C13_NotifyWakesFifo ==
    /\ [][NewlySelected # {} =>
            LET k == Min(notifyN', Len(PendingCond))
            IN  NewlySelected = {PendingCond[i] : i \in 1..k}]_vars
    /\ \A c \in WaitIds : (c \in Selected /\ cf[c] = "pending") ~> (cf[c] # "pending")

\* C14: cancelling the Future of wait() cancels its pending inner waiter and
\* takes it off the wait list; a cancelled waiter is never selected by a later
\* notify and its wait() Future stays cancelled.
C14_CancelCascades ==
    /\ [][\A c \in WaitIds : (cf[c] = "pending" /\ cf'[c] = "cancelled") =>
            /\ cw[c] = "pending" => cw'[c] = "cancelled"
            /\ \A i \in 1..Len(cwaiting') : cwaiting'[i] # c]_vars
    /\ [][\A c \in NewlySelected : cf[c] # "cancelled"]_vars
    /\ [][\A c \in WaitIds : cf[c] = "cancelled" => cf'[c] = "cancelled"]_vars

\* ---------------------------------------------------------------- Semaphore
\* Semaphore.locked()
SemLocked == value = 0

\* the test acquire() makes before queueing: !this._value
SemBlocksBug(v) == v < 0
SemBlocks(v) == v = 0

\* the immediate callback acquire() registers on a waiter: the new _value
SemCallbackBug(v, cancelled) == v - 1
SemCallback(v, cancelled) == IF ~cancelled THEN v - 1 ELSE v

\* Semaphore._wakeUpNext(): shift waiters until one that is not done, and
\* settle that one
SemWakeUpNextBug(ws, ft) ==
    IF ws = <<>> THEN [waiters |-> <<>>, woken |-> {}]
    ELSE [waiters |-> Tail(ws),
          woken |-> IF Done(ft[Head(ws)]) THEN {} ELSE {Head(ws)}]
SemWakeUpNext(ws, ft) ==
    LET live == DropDone(ws, ft)
    IN  IF live = <<>> THEN [waiters |-> <<>>, woken |-> {}]
        ELSE [waiters |-> Tail(live), woken |-> {Head(live)}]

\* Semaphore.acquire()
SemAcquire ==
    /\ Unborn # {}
    /\ LET f == NewFut
       IN  IF SemBlocks(value)
           THEN /\ waiters' = Append(waiters, f)
                /\ fut' = [fut EXCEPT ![f] = "pending"]
                /\ queued' = queued \cup {f}
                /\ UNCHANGED value
           ELSE /\ value' = value - 1
                /\ fut' = [fut EXCEPT ![f] = "resolved"]
                /\ UNCHANGED <<waiters, queued>>
    /\ UNCHANGED <<resumed, lockVars, birth, initValue, releases, queueVars, condVars, eventVars, dfVars, wqVars, wqHist, rlVars, taskVars, pqVars, errVars>>

\* Semaphore.release()
SemRelease ==
    /\ releases < MaxReleases
    /\ releases' = releases + 1
    /\ LET w == SemWakeUpNext(waiters, fut)
       IN  /\ waiters' = w.waiters
           /\ fut' = [f \in FutIds |-> IF f \in w.woken THEN "resolved" ELSE fut[f]]
           /\ value' = IF w.woken = {} THEN value + 1
                       ELSE SemCallback(value + 1, FALSE)
    /\ UNCHANGED <<resumed, lockVars, queued, birth, initValue, queueVars, condVars, eventVars, dfVars, wqVars, wqHist, rlVars, taskVars, pqVars, errVars>>

\* Future.cancel() on a pending acquire() Future; it stays in _waiters
SemCancel(f) ==
    /\ fut[f] = "pending"
    /\ fut' = [fut EXCEPT ![f] = "cancelled"]
    /\ value' = SemCallback(value, TRUE)
    /\ UNCHANGED <<resumed, lockVars, queued, birth, waiters, initValue, releases, queueVars, condVars, eventVars, dfVars, wqVars, wqHist, rlVars, taskVars, pqVars, errVars>>

\* the continuation of `await s.acquire()` runs on a later tick
SemResume(f) ==
    /\ fut[f] = "resolved"
    /\ f \notin resumed
    /\ resumed' = resumed \cup {f}
    /\ UNCHANGED <<fut, lockVars, queued, birth, semVars, queueVars, condVars, eventVars, dfVars, wqVars, wqHist, rlVars, taskVars, pqVars, errVars>>

InitSemaphore ==
    /\ fut = [f \in FutIds |-> "unborn"]
    /\ resumed = {}
    /\ locked = FALSE
    /\ waiting = <<>>
    /\ queued = {}
    /\ released = {}
    /\ birth = [f \in FutIds |-> 0]
    /\ initValue \in 0..MaxValue
    /\ value = initValue
    /\ waiters = <<>>
    /\ releases = 0
    /\ maxsize = 0
    /\ queue = <<>>
    /\ getters = <<>>
    /\ putters = <<>>
    /\ ready = <<>>
    /\ unfinishedTasks = 0
    /\ finished = TRUE
    /\ wfut = [w \in WaiterIds |-> NoWaiter]
    /\ puts = [c \in ItemIds |-> "unborn"]
    /\ taken = {}
    /\ inserted = 0
    /\ order = <<>>
    /\ removed = <<>>
    /\ CondInit
    /\ EventInit
    /\ DfInit
    /\ WqInit
    /\ WqHistInit
    /\ RlInit
    /\ TaskInit
    /\ PqInit
    /\ ErrInit

NextSemaphore ==
    \/ SemAcquire
    \/ SemRelease
    \/ \E f \in FutIds : SemCancel(f)
    \/ \E f \in FutIds : SemResume(f)

SpecSemaphore == InitSemaphore /\ [][NextSemaphore]_vars

\* ------------------------------------------------------- Semaphore claims
\* acquire() Futures that have been granted a permit
Granted == {f \in FutIds : fut[f] = "resolved"}

SemPending == SelectSeq(waiters, LAMBDA f : fut[f] = "pending")

\* C8: permits never go negative and permits + granted acquires = initial
\* value + releases; a cancelled acquire takes no permit.
C8_Conservation ==
    /\ value >= 0
    /\ value + Cardinality(Granted) = initValue + releases

\* a waiter was granted by a release() and another one was cancelled
C8_Witness ==
    /\ releases > 0
    /\ \E f \in queued : fut[f] = "resolved"
    /\ \E f \in queued : fut[f] = "cancelled"

\* C9: after exactly initValue granted acquires and no release the
\* semaphore is locked and the next acquire() stays pending.
C9_ExhaustedBlocks ==
    /\ []((releases = 0 /\ Cardinality(Granted) = initValue) => SemLocked)
    /\ [][(releases = 0 /\ Cardinality(Granted) = initValue /\ Unborn' # Unborn) =>
            (fut'[NewFut] = "pending" /\ SemLocked')]_vars

\* both permits of a Semaphore(2) are taken and a third acquire() waits
C9_Witness ==
    /\ releases = 0 /\ initValue = MaxValue
    /\ Cardinality(Granted) = initValue
    /\ \E f \in FutIds : fut[f] = "pending"

\* C10: release() grants the permit to the first waiter that is still
\* pending, passing over cancelled ones; with none pending the permit stays
\* available and the next acquire() resolves at once.
C10_CancelForwardsWake ==
    /\ [][(releases' # releases) =>
            IF SemPending = <<>>
            THEN /\ value' = value + 1
                 /\ fut' = fut
            ELSE /\ fut'[Head(SemPending)] = "resolved"
                 /\ \A f \in FutIds \ {Head(SemPending)} : fut'[f] = fut[f]
                 /\ value' = value]_vars
    /\ [][(value > 0 /\ Unborn' # Unborn) => fut'[NewFut] = "resolved"]_vars

\* a release() passed over cancelled waiter f to grant g, and a later
\* release() found only the cancelled h, leaving its permit available
C10_Witness ==
    \E f, g, h \in queued :
        /\ f < g /\ g < h
        /\ fut[f] = "cancelled" /\ fut[g] = "resolved" /\ fut[h] = "cancelled"
        /\ value > 0 /\ waiters = <<>>

\* ---------------------------------------------------------------- Queue
\* The synchronous part of a handler is a function on the record of the
\* queue's fields; an action applies it and stores the fields back.
QueueState ==
    [queue |-> queue, getters |-> getters, putters |-> putters, ready |-> ready,
     unfinishedTasks |-> unfinishedTasks, finished |-> finished, wfut |-> wfut,
     inserted |-> inserted, order |-> order, removed |-> removed,
     err |-> "none"]

\* Queue.size
Size(q) == Len(q.queue)

\* the test wait() and the getter callback make: this.size < size
WaitBlocksBug(q, n) == Size(q) <= n
WaitBlocks(q, n) == Size(q) < n

\* Queue.full
FullBug(q) == IF maxsize <= 0 THEN FALSE ELSE Len(q.queue) > maxsize
Full(q) == IF maxsize <= 0 THEN FALSE ELSE Len(q.queue) >= maxsize

\* _wakeupNext(this._putters): a putter is local to its put() call, so none
\* in the list is done and the first is settled.  It has no immediate
\* callback; the put() awaiting it resumes on a later tick, in the order the
\* putters were resolved
WakeupNextPutters(q) ==
    IF q.putters = <<>> THEN q
    ELSE [q EXCEPT !.putters = Tail(@), !.ready = Append(@, Head(q.putters))]

\* Queue.getNoWait() on a non-empty queue (FIFO _get), returning Head(q.queue)
GetNoWaitPeek(q) ==
    WakeupNextPutters([q EXCEPT !.removed = Append(@, Head(q.queue))])
GetNoWait(q) ==
    WakeupNextPutters([q EXCEPT !.queue = Tail(@), !.removed = Append(@, Head(q.queue))])

\* Queue.getAllNoWait(), returning q.queue
GetAllNoWait(q) ==
    WakeupNextPutters([q EXCEPT !.queue = <<>>, !.removed = @ \o q.queue])

\* the value _callback() returns: kind is "get" for () => this.getNoWait(),
\* "getAll" for () => this.getAllNoWait(), "wait" for no _callback
CallbackResult(q, kind) ==
    IF kind = "get" THEN <<Head(q.queue)>>
    ELSE IF kind = "getAll" THEN q.queue
    ELSE <<>>

\* waiter.setResult(_callback ? _callback() : undefined), cl the closure
WaiterSetResult(q, cl) ==
    LET q1 == IF cl.kind = "get" THEN GetNoWait(q)
              ELSE IF cl.kind = "getAll" THEN GetAllNoWait(q)
              ELSE q
    IN  [q1 EXCEPT !.wfut[cl.w].st = "resolved",
                   !.wfut[cl.w].result = CallbackResult(q, cl.kind),
                   !.wfut[cl.w].at = q.inserted]

\* scheduleWait(): a fresh getter Future with the same closure joins _getters
ScheduleWait(q, cl) ==
    [q EXCEPT !.getters = Append(@, [cl EXCEPT !.done = FALSE])]

\* the getter callback that resolves the waiter without testing the size
GetterCallbackNoTest(q, cl) ==
    IF q.wfut[cl.w].st = "cancelled" THEN q
    ELSE WaiterSetResult(q, cl)

\* the immediate callback of a getter Future of waiter w.  Without the
\* cancelled() test, _callback() runs and setResult then throws on the
\* cancelled waiter.
GetterCallbackBug(q, cl) ==
    IF WaitBlocks(q, cl.size) THEN ScheduleWait(q, cl)
    ELSE IF q.wfut[cl.w].st = "cancelled"
         THEN [WaiterSetResult(q, cl) EXCEPT !.wfut = q.wfut]
         ELSE WaiterSetResult(q, cl)
GetterCallback(q, cl) ==
    IF q.wfut[cl.w].st = "cancelled" THEN q
    ELSE IF WaitBlocks(q, cl.size) THEN ScheduleWait(q, cl)
    ELSE WaiterSetResult(q, cl)

RECURSIVE DropDoneGetters(_)
\* the done getters _wakeupNext shifts away before it finds a live one
DropDoneGetters(gs) ==
    IF gs = <<>> THEN <<>>
    ELSE IF Head(gs).done THEN DropDoneGetters(Tail(gs))
    ELSE gs

\* _wakeupNext(this._getters): settle the first getter that is not done,
\* which runs its immediate callback
WakeupNextGettersBug(q) ==
    IF q.getters = <<>> THEN q
    ELSE IF Head(q.getters).done THEN [q EXCEPT !.getters = Tail(@)]
    ELSE GetterCallback([q EXCEPT !.getters = Tail(@)], Head(q.getters))
WakeupNextGetters(q) ==
    LET live == DropDoneGetters(q.getters)
    IN  IF live = <<>> THEN [q EXCEPT !.getters = <<>>]
        ELSE GetterCallback([q EXCEPT !.getters = Tail(live)], Head(live))

\* Queue.putNoWait(item) on a queue that is not full
PutNoWait(q, item) ==
    WakeupNextGetters([q EXCEPT !.queue = Append(@, item),
                                !.unfinishedTasks = @ + 1,
                                !.inserted = @ + 1,
                                !.order = Append(@, item),
                                !.finished = FALSE])

\* Queue.putNoWait(item): throws QueueFull before it writes anything
PutNoWaitCallLate(q, item) ==
    IF Full(q) THEN [PutNoWait(q, item) EXCEPT !.err = "QueueFull"]
    ELSE [PutNoWait(q, item) EXCEPT !.err = "none"]
PutNoWaitCall(q, item) ==
    IF Full(q) THEN [q EXCEPT !.err = "QueueFull"]
    ELSE [PutNoWait(q, item) EXCEPT !.err = "none"]

\* Queue.getNoWait(): throws QueueEmpty before it writes anything
GetNoWaitCallLate(q) ==
    IF Size(q) = 0 THEN [WakeupNextPutters(q) EXCEPT !.err = "QueueEmpty"]
    ELSE [GetNoWait(q) EXCEPT !.err = "none"]
GetNoWaitCall(q) ==
    IF Size(q) = 0 THEN [q EXCEPT !.err = "QueueEmpty"]
    ELSE [GetNoWait(q) EXCEPT !.err = "none"]

\* store the fields of q back into the queue
Store(q) ==
    /\ queue' = q.queue
    /\ getters' = q.getters
    /\ putters' = q.putters
    /\ ready' = q.ready
    /\ unfinishedTasks' = q.unfinishedTasks
    /\ finished' = q.finished
    /\ wfut' = q.wfut
    /\ inserted' = q.inserted
    /\ order' = q.order
    /\ removed' = q.removed
    /\ qerr' = q.err

UnbornItems == {c \in ItemIds : puts[c] = "unborn"}
NewItem == CHOOSE c \in UnbornItems : \A d \in UnbornItems : c <= d
UnbornWaiters == {w \in WaiterIds : wfut[w].st = "unborn"}
NewWaiter == CHOOSE w \in UnbornWaiters : \A v \in UnbornWaiters : w <= v

\* calls made so far that created an item or a waiter
Calls == (MaxItems - Cardinality(UnbornItems)) + (MaxWaiters - Cardinality(UnbornWaiters))

\* q.put(item): runs synchronously up to its first await
QPut ==
    /\ UnbornItems # {}
    /\ Calls < MaxCalls
    /\ LET c == NewItem
           q == QueueState
       IN  IF Full(q)
           THEN /\ Store([q EXCEPT !.putters = Append(@, c)])
                /\ puts' = [puts EXCEPT ![c] = "suspended"]
           ELSE /\ Store(PutNoWait(q, c))
                /\ puts' = [puts EXCEPT ![c] = "done"]
    /\ UNCHANGED <<futVars, lockVars, semVars, condVars, maxsize, taken, eventVars, dfVars, wqVars, wqHist, rlVars, taskVars, pqVars>>

\* the continuation of `await putter` in put(): the while loop tests full again
QPutResume ==
    /\ ready # <<>>
    /\ LET c == Head(ready)
           q == [QueueState EXCEPT !.ready = Tail(@)]
       IN  IF Full(q)
           THEN /\ Store([q EXCEPT !.putters = Append(@, c)])
                /\ UNCHANGED puts
           ELSE /\ Store(PutNoWait(q, c))
                /\ puts' = [puts EXCEPT ![c] = "done"]
    /\ UNCHANGED <<futVars, lockVars, semVars, condVars, maxsize, taken, eventVars, dfVars, wqVars, wqHist, rlVars, taskVars, pqVars>>

\* q.putNoWait(item) on a queue that is not full
QPutNoWait ==
    /\ UnbornItems # {}
    /\ Calls < MaxCalls
    /\ ~Full(QueueState)
    /\ Store(PutNoWaitCall(QueueState, NewItem))
    /\ puts' = [puts EXCEPT ![NewItem] = "done"]
    /\ UNCHANGED <<futVars, lockVars, semVars, condVars, maxsize, taken, eventVars, dfVars, wqVars, wqHist, rlVars, taskVars, pqVars>>

\* q.wait({size: n}); q.get() and q.getAll() are wait({}, _callback), size 1
QWaitCall(kind, n) ==
    /\ UnbornWaiters # {}
    /\ LET cl == [w |-> NewWaiter, size |-> n, kind |-> kind, done |-> FALSE]
           q == [QueueState EXCEPT !.wfut[cl.w].st = "pending",
                                   !.wfut[cl.w].born = inserted,
                                   !.wfut[cl.w].size = n,
                                   !.wfut[cl.w].kind = kind]
       IN  IF WaitBlocks(q, n)
           THEN Store(ScheduleWait(q, cl))
           ELSE Store(WaiterSetResult(q, cl))
    /\ UNCHANGED <<futVars, lockVars, semVars, condVars, maxsize, puts, taken, eventVars, dfVars, wqVars, settled, rlVars, taskVars, pqVars>>

\* a get(), getAll() or wait() call made by the program itself
QWait(kind, n) ==
    /\ Calls < MaxCalls
    /\ QWaitCall(kind, n)
    /\ UNCHANGED iter

\* the getter Future the closure variable `getter` of waiter w refers to:
\* the one scheduleWait() created last, still in _getters
CurrentGetter(gs, w) == CHOOSE i \in 1..Len(gs) : gs[i].w = w /\ ~gs[i].done

\* Future.cancel() on a pending waiter: its immediate callback cancels the
\* waiter's current getter, whose own callback then runs
QCancel(w) ==
    /\ wfut[w].st = "pending"
    /\ LET i == CurrentGetter(getters, w)
           q == [QueueState EXCEPT !.wfut[w].st = "cancelled",
                                   !.getters[i].done = TRUE]
       IN  Store(GetterCallback(q, getters[i]))
    /\ UNCHANGED <<futVars, lockVars, semVars, condVars, maxsize, puts, taken, eventVars, dfVars, wqVars, wqHist, rlVars, taskVars, pqVars>>

\* q.getNoWait() on a queue that is not empty
QGetNoWait ==
    /\ queue # <<>>
    /\ Store(GetNoWaitCall(QueueState))
    /\ taken' = taken \cup {Head(queue)}
    /\ UNCHANGED <<futVars, lockVars, semVars, condVars, maxsize, puts, eventVars, dfVars, wqVars, wqHist, rlVars, taskVars, pqVars>>

\* q.getAllNoWait(); with nothing buffered and no putter it changes nothing
QGetAllNoWait ==
    /\ queue # <<>> \/ putters # <<>>
    /\ Store(GetAllNoWait(QueueState))
    /\ taken' = taken \cup {queue[i] : i \in 1..Len(queue)}
    /\ UNCHANGED <<futVars, lockVars, semVars, condVars, maxsize, puts, eventVars, dfVars, wqVars, wqHist, rlVars, taskVars, pqVars>>

InitQueue ==
    /\ fut = [f \in FutIds |-> "unborn"]
    /\ resumed = {}
    /\ locked = FALSE
    /\ waiting = <<>>
    /\ queued = {}
    /\ released = {}
    /\ birth = [f \in FutIds |-> 0]
    /\ initValue = 1
    /\ value = initValue
    /\ waiters = <<>>
    /\ releases = 0
    /\ maxsize \in 0..MaxMaxsize
    /\ queue = <<>>
    /\ getters = <<>>
    /\ putters = <<>>
    /\ ready = <<>>
    /\ unfinishedTasks = 0
    /\ finished = TRUE
    /\ wfut = [w \in WaiterIds |-> NoWaiter]
    /\ puts = [c \in ItemIds |-> "unborn"]
    /\ taken = {}
    /\ inserted = 0
    /\ order = <<>>
    /\ removed = <<>>
    /\ CondInit
    /\ EventInit
    /\ DfInit
    /\ WqInit
    /\ WqHistInit
    /\ RlInit
    /\ TaskInit
    /\ PqInit
    /\ ErrInit

NextQueue ==
    \/ QPut
    \/ QPutResume
    \/ QPutNoWait
    \/ \E n \in 1..MaxThreshold : QWait("wait", n)
    \/ QWait("get", 1)
    \/ QWait("getAll", 1)
    \/ \E w \in WaiterIds : QCancel(w)
    \/ QGetNoWait
    \/ QGetAllNoWait

SpecQueue == InitQueue /\ [][NextQueue]_vars

\* ------------------------------------------------------------ Queue claims
\* C3: the buffer of a bounded queue never holds more than maxsize items.
C3_CapacityBound == maxsize > 0 => Len(queue) <= maxsize

\* more woken putters wait to resume than there are free slots
C3_Witness ==
    /\ maxsize > 0
    /\ Len(ready) >= 2
    /\ maxsize - Len(queue) < Len(ready)

\* C4: on a bounded queue a put() call suspends iff the buffer holds maxsize
\* items, and a get() call returns a pending Future iff the buffer is empty.
C4_SuspendIff ==
    [][maxsize > 0 =>
        /\ \A c \in ItemIds : (puts[c] = "unborn" /\ puts'[c] # "unborn") =>
              (puts'[c] = "suspended" <=> Len(queue) = maxsize)
        /\ \A w \in WaiterIds : (wfut[w].st = "unborn" /\ wfut'[w].st # "unborn") =>
              /\ Len(queue) = 0 => wfut'[w].st = "pending"
              /\ (/\ wfut'[w].st = "pending"
                  /\ \E i \in 1..Len(getters') :
                        getters'[i].w = w /\ getters'[i].kind = "get")
                 => Len(queue) = 0]_vars

\* a put() is suspended on a bounded queue while a get() is pending
C4_Witness ==
    /\ maxsize > 0
    /\ \E c \in ItemIds : puts[c] = "suspended"
    /\ \E i \in 1..Len(getters) :
          getters[i].kind = "get" /\ ~getters[i].done /\ wfut[getters[i].w].st = "pending"

\* C5: no Future of wait({size: n}), get() or getAll() is pending while the
\* buffer holds at least n items.
C5_ThresholdWaitLiveness ==
    \A i \in 1..Len(getters) :
        (~getters[i].done /\ wfut[getters[i].w].st = "pending")
            => Len(queue) < getters[i].size

\* the first getter of _getters that is not done, as a sequence of 0 or 1
LiveGetters == DropDoneGetters(getters)

\* C6: a putNoWait wakes the first getter that is not done, passing over the
\* cancelled ones: its waiter resolves, or it re-arms when the threshold is
\* not met yet; cancelled waiters stay cancelled and nobody else is woken.
C6_CancelledNeverAbsorbs ==
    [][(inserted' # inserted) =>
        /\ \A w \in WaiterIds : wfut[w].st = "cancelled" => wfut'[w] = wfut[w]
        /\ IF LiveGetters = <<>>
           THEN wfut' = wfut /\ getters' = <<>>
           ELSE LET g == Head(LiveGetters)
                IN  /\ \A w \in WaiterIds \ {g.w} : wfut'[w] = wfut[w]
                    /\ IF Len(queue) + 1 >= g.size
                       THEN wfut'[g.w].st = "resolved" /\ getters' = Tail(LiveGetters)
                       ELSE wfut' = wfut /\ getters' = Append(Tail(LiveGetters), g)]_vars

\* W1, W2, W3 = wait() on the empty queue and W1 cancelled: the put passed
\* over W1 and resolved W2, and W3 is still pending
C6_Witness ==
    /\ \A w \in 1..3 : wfut[w].born = 0 /\ wfut[w].result = <<>>
    /\ wfut[1].st = "cancelled"
    /\ wfut[2].st = "resolved" /\ wfut[2].at = 1
    /\ wfut[3].st = "pending"
    /\ Len(queue) = 1

\* items handed to a consumer: by a non-waiting call or as a Future's result
Delivered ==
    taken \cup UNION {{wfut[w].result[i] : i \in 1..Len(wfut[w].result)} :
                        w \in {v \in WaiterIds : wfut[v].st = "resolved"}}

Items(sq) == {sq[i] : i \in 1..Len(sq)}

\* C7: cancelling a pending Future of get/getAll/wait changes neither the
\* buffer nor unfinishedTasks; a cancelled Future stays as it is, and every
\* item that leaves the buffer goes to a non-waiting call or a resolved Future.
C7_CancelFrame ==
    /\ [][\A w \in WaiterIds :
            (wfut[w].st = "pending" /\ wfut'[w].st = "cancelled") =>
                /\ queue' = queue
                /\ unfinishedTasks' = unfinishedTasks
                /\ ready' = ready]_vars
    /\ [][\A w \in WaiterIds : wfut[w].st = "cancelled" => wfut'[w] = wfut[w]]_vars
    /\ [][(Items(queue) \ Items(queue')) \subseteq Delivered']_vars
    /\ [](\A w \in WaiterIds : wfut[w].st = "cancelled" => wfut[w].result = <<>>)

\* a waiter was cancelled while pending, a later put shifted its getter out
\* of _getters, and the buffer holds an item
C7_Witness ==
    \E w \in WaiterIds :
        /\ wfut[w].st = "cancelled"
        /\ \A i \in 1..Len(getters) : getters[i].w # w
        /\ queue # <<>>

\* ---------------------------------------------------------------- Event
\* Event.isSet()
EventIsSet == isSet

UnbornEventWaits == {e \in EventWaitIds : ef[e] = "unborn"}

\* the next Event.wait() call
NewEventWait == CHOOSE e \in UnbornEventWaits : \A d \in UnbornEventWaits : e <= d

\* the waiters set() settles: every one that is not done
EventWokenBug(ws, st) ==
    LET live == DropDone(ws, st)
    IN  IF live = <<>> THEN {} ELSE {Head(live)}
EventWoken(ws, st) == {ws[i] : i \in {j \in 1..Len(ws) : ~Done(st[ws[j]])}}

\* Event.set(): each settled waiter's immediate callback deletes it from
\* _waiting; a set() on a set event does nothing
EventSet ==
    /\ IF ~isSet
       THEN LET woken == EventWoken(ewaiting, ef)
            IN  /\ isSet' = TRUE
                /\ ef' = [e \in EventWaitIds |-> IF e \in woken THEN "resolved" ELSE ef[e]]
                /\ ewaiting' = RemoveAll(ewaiting, woken)
       ELSE UNCHANGED <<isSet, ef, ewaiting>>
    /\ UNCHANGED <<ewaited, futVars, lockVars, semVars, queueVars, condVars, dfVars, wqVars, wqHist, rlVars, taskVars, pqVars, errVars>>

\* Event.clear()
EventClear ==
    /\ isSet' = FALSE
    /\ UNCHANGED <<ewaiting, ef, ewaited, futVars, lockVars, semVars, queueVars, condVars, dfVars, wqVars, wqHist, rlVars, taskVars, pqVars, errVars>>

\* Event.wait()
EventWait ==
    /\ UnbornEventWaits # {}
    /\ LET e == NewEventWait
       IN  IF isSet
           THEN /\ ef' = [ef EXCEPT ![e] = "resolved"]
                /\ UNCHANGED <<ewaiting, ewaited>>
           ELSE /\ ef' = [ef EXCEPT ![e] = "pending"]
                /\ ewaiting' = Append(ewaiting, e)
                /\ ewaited' = ewaited \cup {e}
    /\ UNCHANGED <<isSet, futVars, lockVars, semVars, queueVars, condVars, dfVars, wqVars, wqHist, rlVars, taskVars, pqVars, errVars>>

\* Future.cancel() on a pending wait() Future: its callback deletes it
EventCancel(e) ==
    /\ ef[e] = "pending"
    /\ ef' = [ef EXCEPT ![e] = "cancelled"]
    /\ ewaiting' = Remove(ewaiting, e)
    /\ UNCHANGED <<isSet, ewaited, futVars, lockVars, semVars, queueVars, condVars, dfVars, wqVars, wqHist, rlVars, taskVars, pqVars, errVars>>

InitEvent == InitLock

NextEvent ==
    \/ EventSet
    \/ EventClear
    \/ EventWait
    \/ \E e \in EventWaitIds : EventCancel(e)

SpecEvent == InitEvent /\ [][NextEvent]_vars

\* ----------------------------------------------------------- Event claims
\* C15: a set() that latches the event resolves every waiter pending at that
\* moment; a wait() called while the event is set returns a resolved Future
\* and one called while it is clear returns a pending one; a resolved Future
\* stays resolved across clear(); and a pending Future resolves only in a
\* set() step that latches the event.
C15_EventLatch ==
    /\ [][(~EventIsSet /\ EventIsSet') =>
            \A e \in EventWaitIds : ef[e] = "pending" => ef'[e] = "resolved"]_vars
    /\ [][\A e \in EventWaitIds : (ef[e] = "unborn" /\ ef'[e] # "unborn") =>
            ef'[e] = (IF EventIsSet THEN "resolved" ELSE "pending")]_vars
    /\ [][\A e \in EventWaitIds : ef[e] = "resolved" => ef'[e] = "resolved"]_vars
    /\ [][\A e \in EventWaitIds : (ef[e] = "pending" /\ ef'[e] = "resolved") =>
            (~EventIsSet /\ EventIsSet')]_vars

\* two waiters were resolved together by a set(), a third wait() resolved at
\* once while the event was set, and after a clear() a fourth one is pending
C15_Witness ==
    /\ ~EventIsSet
    /\ ewaited = {1, 2, 4}
    /\ ef[1] = "resolved" /\ ef[2] = "resolved" /\ ef[3] = "resolved"
    /\ ef[4] = "pending"

\* ------------------------------------------------- Future (futures.mjs)
\* Future.done()
FutureDone(f) == ~f.pending

\* Future.cancelled()
FutureCancelled(f) == f.cancelled

\* _runCallbacks(): every registered callback, in array order
RunCallbacksBug(f) ==
    [f EXCEPT !.ran = f.ran \o [i \in 1..Len(f.callbacks) |->
                                   f.callbacks[Len(f.callbacks) + 1 - i]]]
RunCallbacks(f) == [f EXCEPT !.ran = f.ran \o f.callbacks]

\* _setDone()
SetDone(f) == RunCallbacks([f EXCEPT !.pending = FALSE])

\* the test setResult / setError / cancel make first: false ends the call
SettleableBug(f) == ~f.cancelled
Settleable(f) == f.pending

\* the Promise's resolve / reject functions: only the first call takes effect
PromiseSettle(p, to) == IF p = "pending" THEN to ELSE p

\* Future.setResult(result)
FutureSetResult(f, v) ==
    IF ~Settleable(f)
    THEN [f |-> f, ret |-> "threw"]
    ELSE LET g == SetDone([f EXCEPT !.result = v])
         IN  [f |-> [g EXCEPT !.promise = PromiseSettle(g.promise, "fulfilled")],
              ret |-> "returned"]

\* Future.setError(e)
FutureSetError(f, e) ==
    IF ~Settleable(f)
    THEN [f |-> f, ret |-> "threw"]
    ELSE LET g == [f EXCEPT !.error = e,
                            !.promise = PromiseSettle(f.promise, "rejected")]
         IN  [f |-> SetDone(g), ret |-> "returned"]

\* Future.cancel(): neither _resolve nor _reject is called
FutureCancel(f) ==
    IF ~Settleable(f)
    THEN [f |-> f, ret |-> "false"]
    ELSE [f |-> SetDone([f EXCEPT !.cancelled = TRUE]), ret |-> "true"]

\* Future.addImmediateCallback(cb)
FutureAddImmediateCallback(f, cb) ==
    IF ~f.pending
    THEN [f EXCEPT !.ran = Append(f.ran, cb), !.added = cb]
    ELSE [f EXCEPT !.callbacks = Append(f.callbacks, cb), !.added = cb]

DfSetResult(v) ==
    /\ df' = FutureSetResult(df, v).f
    /\ dfCall' = [op |-> "setResult", ret |-> FutureSetResult(df, v).ret]
    /\ UNCHANGED <<aw, futVars, lockVars, semVars, queueVars, condVars, eventVars, wqVars, wqHist, rlVars, taskVars, pqVars, errVars>>

DfSetError(e) ==
    /\ df' = FutureSetError(df, e).f
    /\ dfCall' = [op |-> "setError", ret |-> FutureSetError(df, e).ret]
    /\ UNCHANGED <<aw, futVars, lockVars, semVars, queueVars, condVars, eventVars, wqVars, wqHist, rlVars, taskVars, pqVars, errVars>>

DfCancel ==
    /\ df' = FutureCancel(df).f
    /\ dfCall' = [op |-> "cancel", ret |-> FutureCancel(df).ret]
    /\ UNCHANGED <<aw, futVars, lockVars, semVars, queueVars, condVars, eventVars, wqVars, wqHist, rlVars, taskVars, pqVars, errVars>>

\* callbacks are numbered in the order they are registered
DfAddImmediateCallback ==
    /\ df.added < MaxCallbacks
    /\ df' = FutureAddImmediateCallback(df, df.added + 1)
    /\ dfCall' = [op |-> "addImmediateCallback", ret |-> "returned"]
    /\ UNCHANGED <<aw, futVars, lockVars, semVars, queueVars, condVars, eventVars, wqVars, wqHist, rlVars, taskVars, pqVars, errVars>>

\* `await f` by awaiter a: a reaction on the Promise
DfAwait(a) ==
    /\ aw[a] = "none"
    /\ aw' = [aw EXCEPT ![a] = "waiting"]
    /\ dfCall' = [op |-> "await", ret |-> "returned"]
    /\ UNCHANGED <<df, futVars, lockVars, semVars, queueVars, condVars, eventVars, wqVars, wqHist, rlVars, taskVars, pqVars, errVars>>

\* the awaiter's continuation, run on a later tick once the Promise is settled
DfResume(a) ==
    /\ aw[a] = "waiting"
    /\ df.promise # "pending"
    /\ aw' = [aw EXCEPT ![a] = IF df.promise = "fulfilled" THEN "value" ELSE "failure"]
    /\ dfCall' = [op |-> "resume", ret |-> "returned"]
    /\ UNCHANGED <<df, futVars, lockVars, semVars, queueVars, condVars, eventVars, wqVars, wqHist, rlVars, taskVars, pqVars, errVars>>

InitFuture == InitLock

NextFuture ==
    \/ \E v \in Outcomes : DfSetResult(v)
    \/ \E e \in Outcomes : DfSetError(e)
    \/ DfCancel
    \/ DfAddImmediateCallback
    \/ \E a \in AwaiterIds : DfAwait(a)
    \/ \E a \in AwaiterIds : DfResume(a)

SpecFuture == InitFuture /\ [][NextFuture]_vars

\* the event loop runs the reactions of a settled Promise
SpecFutureFair == SpecFuture /\ \A a \in AwaiterIds : WF_vars(DfResume(a))

\* ---------------------------------------------------------- Future claims
\* what result() / error() and the state queries can observe
Outcome(f) == <<f.pending, f.cancelled, f.result, f.error>>

\* C16: a Future never becomes pending again; on a non-pending Future
\* setResult and setError raise, cancel() returns false, and no step changes
\* its state, result or error (so a settle after a cancel raises and a cancel
\* after a settle leaves the outcome).
C16_OneShot ==
    [][FutureDone(df) =>
        /\ Outcome(df') = Outcome(df)
        /\ dfCall'.op \in {"setResult", "setError"} => dfCall'.ret = "threw"
        /\ dfCall'.op = "cancel" => dfCall'.ret = "false"]_vars

\* a setResult on a cancelled Future raised, with two callbacks run by the
\* cancel() and an awaiter waiting
C16_Witness ==
    /\ FutureCancelled(df) /\ df.result = 0
    /\ dfCall = [op |-> "setResult", ret |-> "threw"]
    /\ df.ran = <<1, 2>>
    /\ \E a \in AwaiterIds : aw[a] = "waiting"

\* C17: the immediate callbacks registered on a pending Future all run, once
\* each and in registration order, in the step that makes it non-pending, so
\* before any awaiter is resumed; a callback added to a non-pending Future
\* runs in the addImmediateCallback step itself.  With callbacks numbered in
\* registration order: none has run while the Future is pending, and from
\* then on the callbacks run are 1, 2, ... up to the last one added.
C17_ImmediateCallbacks ==
    /\ [](df.ran = IF FutureDone(df) THEN [i \in 1..df.added |-> i] ELSE <<>>)
    /\ [](\A a \in AwaiterIds : aw[a] \in {"value", "failure"} => FutureDone(df))
    /\ [][(~FutureDone(df) /\ FutureDone(df')) =>
            dfCall'.op \in {"setResult", "setError", "cancel"}]_vars

\* two callbacks were registered while pending, the Future was settled, a
\* third callback was added afterwards and an awaiter has been resumed
C17_Witness ==
    /\ df.callbacks = <<1, 2>> /\ df.ran = <<1, 2, 3>>
    /\ df.result # 0
    /\ \E a \in AwaiterIds : aw[a] = "value"

\* C18: cancel() on a pending Future returns true and leaves it cancelled,
\* and every awaiter of a cancelled Future is eventually resumed with a
\* failure.
C18_CancelResumesAwaiters ==
    /\ [][(df.pending /\ dfCall'.op = "cancel") =>
            (dfCall'.ret = "true" /\ FutureCancelled(df') /\ FutureDone(df'))]_vars
    /\ \A a \in AwaiterIds :
          (FutureCancelled(df) /\ aw[a] = "waiting") ~> (aw[a] = "failure")

\* ------------------------------------------------------ UnorderedWorkQueue
\* _fulfilled is a Queue(maxFulfilled): the Queue fields above with maxsize
\* = maxFulfilled, its items the ids of the promoted jobs.  This revision of
\* the work queue calls the Queue's full and size accessors as methods
\* (full(), qsize()).

\* the work queue's own fields next to those of _fulfilled
WqState ==
    [q |-> QueueState, pending |-> wqPending, putters |-> wqPutters, job |-> job]

\* UnorderedWorkQueue.pending()
WqPendingSize(w) == Cardinality(w.pending)

\* UnorderedWorkQueue.fulfilled()
WqFulfilledSize(w) == Size(w.q)

\* _canPut(); `!this._maxPending` holds when the option is not set
CanPutBug(w) == maxPending = 0 \/ WqPendingSize(w) < maxPending
CanPut(w) ==
    /\ maxPending = 0 \/ WqPendingSize(w) < maxPending
    /\ ~Full(w.q)

\* the test put() makes before it enqueues, "assertion failed in put" when it
\* holds; `size >= undefined` is false when maxPending is not set
PutAssertsBug(w) == FALSE
PutAsserts(w) ==
    \/ maxPending # 0 /\ WqPendingSize(w) >= maxPending
    \/ Full(w.q)

\* put() from the assertion on: the job joins _pending, with its finally
\* callback registered
PutEnqueue(w, j) ==
    IF PutAsserts(w) THEN [w EXCEPT !.job[j] = "failed"]
    ELSE [w EXCEPT !.pending = @ \cup {j}, !.job[j] = "pending"]

\* _maybeReleasePutter(): set() the Event of the first suspended put()
MaybeReleasePutter(w) ==
    IF w.putters # <<>> /\ CanPut(w)
    THEN [w EXCEPT !.putters = Tail(@), !.job[Head(w.putters)] = "woken"]
    ELSE w

StoreWq(w) ==
    /\ Store(w.q)
    /\ wqPending' = w.pending
    /\ wqPutters' = w.putters
    /\ job' = w.job

UnbornJobs == {j \in ItemIds : job[j] = "unborn"}

\* the job of the next put() call; ids follow _idCounter
NewJob == CHOOSE j \in UnbornJobs : \A k \in UnbornJobs : j <= k

\* put() and get() calls made so far
WqCalls == (MaxItems - Cardinality(UnbornJobs)) + (MaxWaiters - Cardinality(UnbornWaiters))

\* wq.put(promise): synchronous up to `await ev.wait()`
WqPut ==
    /\ UnbornJobs # {}
    /\ WqCalls < MaxWqCalls
    /\ LET j == NewJob
           w == WqState
       IN  IF ~CanPut(w)
           THEN StoreWq([w EXCEPT !.putters = Append(@, j), !.job[j] = "waiting"])
           ELSE StoreWq(PutEnqueue(w, j))
    /\ UNCHANGED <<futVars, lockVars, semVars, condVars, eventVars, dfVars,
                   maxsize, puts, taken, maxPending, gresumed, wqHist, rlVars, taskVars, pqVars>>

\* the continuation of `await ev.wait()` in put(), on a later tick
WqPutResume(j) ==
    /\ job[j] = "woken"
    /\ StoreWq(PutEnqueue(WqState, j))
    /\ UNCHANGED <<futVars, lockVars, semVars, condVars, eventVars, dfVars,
                   maxsize, puts, taken, maxPending, gresumed, wqHist, rlVars, taskVars, pqVars>>

\* the awaitable of job j has settled and its finally callback runs:
\* _promote(id) up to `await this._fulfilled.put(...)`, where Queue.put runs
\* synchronously up to its own first await
WqPromote(j) ==
    /\ job[j] = "pending"
    /\ LET w == [WqState EXCEPT !.pending = @ \ {j}, !.job[j] = "promoting"]
       IN  IF Full(w.q)
           THEN /\ StoreWq([w EXCEPT !.q.putters = Append(@, j)])
                /\ puts' = [puts EXCEPT ![j] = "suspended"]
           ELSE /\ StoreWq([w EXCEPT !.q = PutNoWait(w.q, j)])
                /\ puts' = [puts EXCEPT ![j] = "done"]
    /\ settled' = Append(settled, j)
    /\ UNCHANGED <<futVars, lockVars, semVars, condVars, eventVars, dfVars,
                   maxsize, taken, maxPending, gresumed, iter, rlVars, taskVars, pqVars>>

\* the continuation of _promote once its Queue.put has returned
WqPromoteResume(j) ==
    /\ job[j] = "promoting"
    /\ puts[j] = "done"
    /\ StoreWq(MaybeReleasePutter([WqState EXCEPT !.job[j] = "promoted"]))
    /\ UNCHANGED <<futVars, lockVars, semVars, condVars, eventVars, dfVars,
                   maxsize, puts, taken, maxPending, gresumed, wqHist, rlVars, taskVars, pqVars>>

\* the continuation of wq.get() once the Future of _fulfilled.get() has
\* resolved: the job's awaitable is settled already, and the finally block runs
WqGetFinally(g) ==
    /\ wfut[g].st = "resolved"
    /\ g \notin gresumed
    /\ StoreWq(MaybeReleasePutter(WqState))
    /\ gresumed' = gresumed \cup {g}
    /\ UNCHANGED <<futVars, lockVars, semVars, condVars, eventVars, dfVars,
                   maxsize, puts, taken, maxPending, settled, rlVars, taskVars, pqVars>>

\* a wq.get() of the program itself returns to its caller
WqGetResume(g) ==
    /\ WqGetFinally(g)
    /\ UNCHANGED iter

\* wq.get() up to its first await: this._fulfilled.get()
WqGet ==
    /\ WqCalls < MaxWqCalls
    /\ QWaitCall("get", 1)
    /\ UNCHANGED iter

InitUWQ ==
    /\ fut = [f \in FutIds |-> "unborn"]
    /\ resumed = {}
    /\ locked = FALSE
    /\ waiting = <<>>
    /\ queued = {}
    /\ released = {}
    /\ birth = [f \in FutIds |-> 0]
    /\ initValue = 1
    /\ value = initValue
    /\ waiters = <<>>
    /\ releases = 0
    /\ maxsize \in 0..MaxMaxsize
    /\ queue = <<>>
    /\ getters = <<>>
    /\ putters = <<>>
    /\ ready = <<>>
    /\ unfinishedTasks = 0
    /\ finished = TRUE
    /\ wfut = [w \in WaiterIds |-> NoWaiter]
    /\ puts = [c \in ItemIds |-> "unborn"]
    /\ taken = {}
    /\ inserted = 0
    /\ order = <<>>
    /\ removed = <<>>
    /\ CondInit
    /\ EventInit
    /\ DfInit
    /\ maxPending \in 0..MaxPending
    /\ wqPending = {}
    /\ wqPutters = <<>>
    /\ job = [j \in ItemIds |-> "unborn"]
    /\ gresumed = {}
    /\ WqHistInit
    /\ RlInit
    /\ TaskInit
    /\ PqInit
    /\ ErrInit

\* the Queue.put of a suspended _promote resumes as in the Queue
NextUWQ ==
    \/ WqPut
    \/ \E j \in ItemIds : WqPutResume(j)
    \/ \E j \in ItemIds : WqPromote(j)
    \/ QPutResume
    \/ \E j \in ItemIds : WqPromoteResume(j)
    \/ WqGet
    \/ \E g \in WaiterIds : WqGetResume(g)

SpecUWQ == InitUWQ /\ [][NextUWQ]_vars

\* ---------------------------------------------- UnorderedWorkQueue claims
\* C19: pending() never exceeds maxPending when it is set, and fulfilled()
\* never exceeds maxFulfilled when it is set.
C19_WqBounds ==
    /\ maxPending > 0 => WqPendingSize(WqState) <= maxPending
    /\ maxsize > 0 => WqFulfilledSize(WqState) <= maxsize

\* both options are set, two suspended puts were woken for one free slot:
\* the first filled _pending up to maxPending and the second was refused
C19_Witness ==
    /\ maxPending > 0 /\ maxsize > 0
    /\ WqPendingSize(WqState) = maxPending
    /\ \E j \in ItemIds : job[j] = "failed"
    /\ \E j \in ItemIds : job[j] = "promoted"

\* C20: no put() fails: a put() that was suspended and woken finds room when
\* it resumes, so the assertion in put() never fires.
C20_WokenPutFindsRoom == \A j \in ItemIds : job[j] # "failed"

\* the loop test of asCompleted()
IterContinuesBug(w) == WqFulfilledSize(w) > 0
IterContinues(w) == WqPendingSize(w) > 0 \/ WqFulfilledSize(w) > 0

\* next() on the async generator asCompleted(): the loop test, and when it
\* holds this.get() up to its first await; otherwise the generator returns
IterNext ==
    /\ iter \in {"none", "yielded"}
    /\ IF IterContinues(WqState)
       THEN /\ WqCalls < MaxWqCalls
            /\ QWaitCall("get", 1)
            /\ iter' = "waiting"
       ELSE /\ iter' = "ended"
            /\ UNCHANGED <<futVars, lockVars, semVars, queueVars, condVars,
                           eventVars, dfVars, wqVars, settled, rlVars, taskVars, pqVars, errVars>>

\* `yield await this.get()`: get() returns and the value is yielded.  A
\* put() on _fulfilled woken by this get's getNoWait() had its putter
\* resolved before the getter's Future, in the same call, and both are awaited
\* the same way: it resumes before get() does.
IterYield(g) ==
    /\ iter = "waiting"
    /\ ready = <<>>
    /\ WqGetFinally(g)
    /\ iter' = "yielded"

\* a work queue consumed by `for await (const x of wq)` only
NextWqIter ==
    \/ WqPut
    \/ \E j \in ItemIds : WqPutResume(j)
    \/ \E j \in ItemIds : WqPromote(j)
    \/ QPutResume
    \/ \E j \in ItemIds : WqPromoteResume(j)
    \/ IterNext
    \/ \E g \in WaiterIds : IterYield(g)

SpecWqIter == InitUWQ /\ [][NextWqIter]_vars

\* the get() calls whose Future has resolved; waiter ids follow call order
ResolvedGets == {g \in WaiterIds : wfut[g].st = "resolved"}

\* C21: successive get() calls return the outcomes in the order in which the
\* awaitables settled, whatever the order of the puts, also when promotions
\* had to wait for room in a bounded fulfilled queue: the k-th get() returns
\* the outcome of the k-th awaitable that settled.
C21_DeliveryInSettlementOrder ==
    \A g \in ResolvedGets :
        /\ g <= Len(settled)
        /\ wfut[g].result = <<settled[g]>>

\* the jobs put() has accepted, and those among them that have settled
Accepted == {j \in ItemIds : job[j] \in {"pending", "promoting", "promoted"}}
Settled == {j \in ItemIds : job[j] \in {"promoting", "promoted"}}

\* the get() calls that returned the outcome of job j
GetsOf(j) == {g \in ResolvedGets : wfut[g].result = <<j>>}

\* the number of places job j holds in the fulfilled queue, counting the
\* put() of _promote that still waits for room
HeldFor(j) ==
    Cardinality({i \in 1..Len(queue) : queue[i] = j})
    + Cardinality({i \in 1..Len(putters) : putters[i] = j})
    + Cardinality({i \in 1..Len(ready) : ready[i] = j})

Woken(jb, jb2) == {j \in ItemIds : jb[j] = "waiting" /\ jb2[j] = "woken"}

\* C23: put() suspends exactly when pending() >= maxPending or the fulfilled
\* queue is full at the call; no step wakes more than one suspended put(), and
\* a put() is woken only in the continuation of a settlement or of a get(),
\* which wakes the oldest one whenever there is room.
C23_Backpressure ==
    /\ [][\A j \in ItemIds : job[j] = "unborn" /\ job'[j] # "unborn" =>
            (job'[j] = "waiting" <=>
                \/ maxPending # 0 /\ Cardinality(wqPending) >= maxPending
                \/ maxsize > 0 /\ Len(queue) >= maxsize)]_vars
    /\ [][Cardinality(Woken(job, job')) <= 1]_vars
    /\ [][Woken(job, job') # {} =>
            /\ Woken(job, job') = {Head(wqPutters)}
            /\ CanPut(WqState)
            /\ \/ gresumed' # gresumed
               \/ \E j \in ItemIds : job[j] = "promoting" /\ job'[j] = "promoted"]_vars
    /\ [][(/\ wqPutters # <<>>
           /\ \/ gresumed' # gresumed
              \/ \E j \in ItemIds : job[j] = "promoting" /\ job'[j] = "promoted"
           /\ CanPut(WqState)) => Woken(job, job') # {}]_vars

\* two put() calls suspended on a full fulfilled queue; a get() made room and
\* its continuation woke the older one only
C23_Witness ==
    /\ maxsize > 0
    /\ queue = <<>>
    /\ gresumed # {}
    /\ \E j, k \in ItemIds : j < k /\ job[j] = "woken" /\ job[k] = "waiting"

\* --------------------------------------------------------- RateLimiter
\* part_009: RateLimiter.  The clock is kept relative: age is now - first and
\* since is now - last, which is all the code compares; age stops counting
\* past period + 1 and since past period, where every test has the same
\* outcome.  wait() is modelled from the continuation of `await this._init`
\* on, which runs in the microtask drain of the call on a loaded limiter.
RlState ==
    [age |-> rl.age, since |-> rl.since, count |-> rl.count, w |-> rlw,
     recent |-> rlHist.recent, grants |-> rlHist.grants, fresh |-> rlHist.fresh]

\* _maybeReset()
RlMaybeResetBug(r) == r
RlMaybeReset(r) ==
    IF r.age > rlSpec.period
    THEN [r EXCEPT !.count = 0, !.age = 0, !.grants = 0,
                   !.w = [x \in RlWaiterIds |->
                            IF r.w[x].st = "sleeping"
                            THEN [r.w[x] EXCEPT !.sawReset = TRUE]
                            ELSE r.w[x]]]
    ELSE r

\* the loop test of wait(); now - last < period / limit, without the division
RlBlocksOver(r) ==
    \/ r.count > rlSpec.limit
    \/ rlSpec.spread /\ r.since * rlSpec.limit < rlSpec.period
RlBlocksNoSpread(r) == r.count >= rlSpec.limit
RlBlocks(r) ==
    \/ r.count >= rlSpec.limit
    \/ rlSpec.spread /\ r.since * rlSpec.limit < rlSpec.period

\* wait() past its loop: count++, last = Date.now(), and the call resolves
RlGrant(r, w) ==
    [r EXCEPT !.count = @ + 1, !.since = 0, !.w[w].st = "done",
              !.recent = Append(@, 0), !.grants = @ + 1]

\* await this._sleep(50)
RlSleep(r, w) ==
    [r EXCEPT !.w[w].st = "sleeping", !.w[w].rem = SleepTicks, !.w[w].slept = TRUE]

\* _maybeReset() followed by the loop test, as wait() runs them at entry and
\* after every sleep
RlPoll(r, w) ==
    LET r1 == RlMaybeReset(r)
    IN  IF RlBlocks(r1) THEN RlSleep(r1, w) ELSE RlGrant(r1, w)

StoreRl(r) ==
    /\ rl' = [age |-> r.age, since |-> r.since, count |-> r.count]
    /\ rlw' = r.w
    /\ rlHist' = [recent |-> r.recent, grants |-> r.grants, fresh |-> r.fresh]

UnbornRlWaiters == {w \in RlWaiterIds : rlw[w].st = "unborn"}
NewRlWaiter == CHOOSE w \in UnbornRlWaiters : \A v \in UnbornRlWaiters : w <= v

\* rl.wait() up to its first sleep or to its return
RlWait ==
    /\ UnbornRlWaiters # {}
    /\ StoreRl(RlPoll(RlState, NewRlWaiter))
    /\ UNCHANGED <<futVars, lockVars, semVars, queueVars, condVars, eventVars,
                   dfVars, wqVars, wqHist, rlSpec, taskVars, pqVars, errVars>>

\* the timer of _sleep(50) has fired and wait() goes round its loop
RlWake(w) ==
    /\ rlw[w].st = "sleeping"
    /\ rlw[w].rem = 0
    /\ StoreRl(RlPoll(RlState, w))
    /\ UNCHANGED <<futVars, lockVars, semVars, queueVars, condVars, eventVars,
                   dfVars, wqVars, wqHist, rlSpec, taskVars, pqVars, errVars>>

RlMin(a, b) == IF a < b THEN a ELSE b

\* the ages of the grants one tick later, those of the last period only
RlAged(recent) ==
    SelectSeq([i \in 1..Len(recent) |-> recent[i] + 1],
              LAMBDA a : a < rlSpec.period)

\* the clock (Date.now()) advances by one tick
RlTick ==
    /\ rl' = [rl EXCEPT !.age = RlMin(@ + 1, rlSpec.period + 1),
                        !.since = RlMin(@ + 1, rlSpec.period)]
    /\ rlw' = [w \in RlWaiterIds |->
                IF rlw[w].rem > 0 THEN [rlw[w] EXCEPT !.rem = @ - 1] ELSE rlw[w]]
    /\ rlHist' = [rlHist EXCEPT !.recent = RlAged(@), !.fresh = FALSE]
    /\ UNCHANGED <<futVars, lockVars, semVars, queueVars, condVars, eventVars,
                   dfVars, wqVars, wqHist, rlSpec, taskVars, pqVars, errVars>>

InitRate ==
    /\ fut = [f \in FutIds |-> "unborn"]
    /\ resumed = {}
    /\ locked = FALSE
    /\ waiting = <<>>
    /\ queued = {}
    /\ released = {}
    /\ birth = [f \in FutIds |-> 0]
    /\ initValue = 1
    /\ value = initValue
    /\ waiters = <<>>
    /\ releases = 0
    /\ maxsize = 0
    /\ queue = <<>>
    /\ getters = <<>>
    /\ putters = <<>>
    /\ ready = <<>>
    /\ unfinishedTasks = 0
    /\ finished = TRUE
    /\ wfut = [w \in WaiterIds |-> NoWaiter]
    /\ puts = [c \in ItemIds |-> "unborn"]
    /\ taken = {}
    /\ inserted = 0
    /\ order = <<>>
    /\ removed = <<>>
    /\ CondInit
    /\ EventInit
    /\ DfInit
    /\ WqInit
    /\ WqHistInit
    /\ \E l \in 1..MaxLimit, p \in 1..MaxPeriod, sp \in BOOLEAN :
            RlFresh([limit |-> l, period |-> p, spread |-> sp])
    /\ TaskInit
    /\ PqInit
    /\ ErrInit

NextRate ==
    \/ RlWait
    \/ \E w \in RlWaiterIds : RlWake(w)
    \/ RlTick

SpecRate == InitRate /\ [][NextRate]_vars

\* the clock advances, and a timer that is due fires
SpecRateFair ==
    /\ SpecRate
    /\ WF_vars(RlTick)
    /\ \A w \in RlWaiterIds : WF_vars(RlWake(w))

\* ------------------------------------------------------ RateLimiter claims
\* C24: in any time window of length period, aligned to the limiter's period
\* start or not, at most limit wait() calls resolve.
C24_SlidingWindow == Len(rlHist.recent) <= rlSpec.limit

\* a step in which a wait() call resolves
RlGranted(ws, ws2) == {w \in RlWaiterIds : ws[w].st # "done" /\ ws2[w].st = "done"}

\* C25: count never exceeds limit, also with several wait() calls polling
\* for the same opening, and it is the number of grants since first was set;
\* first changes only in a reset, when now - first > period, and the reset
\* leaves first = now and count = 0, plus the grant of the wait() that made it.
C25_PeriodInvariant ==
    /\ [](rl.count <= rlSpec.limit /\ rl.count = rlHist.grants)
    /\ [][rl'.count < rl.count \/ rl'.age < rl.age =>
            /\ rl.age > rlSpec.period
            /\ rl'.age = 0
            /\ rl'.count = Cardinality(RlGranted(rlw, rlw'))]_vars
    /\ [][rl'.count > rl.count /\ rl'.age >= rl.age =>
            /\ rl'.count = rl.count + 1
            /\ Cardinality(RlGranted(rlw, rlw')) = 1]_vars

\* two wait() calls slept into the next period of a limiter with limit 2;
\* the first to wake made the reset and took the first grant of the new period
C25_Witness ==
    /\ rlSpec.limit = 2
    /\ rl.count = 1
    /\ rl.age = 0
    /\ \E w, v \in RlWaiterIds :
            /\ rlw[w].st = "done" /\ rlw[w].slept
            /\ rlw[v].st = "sleeping" /\ rlw[v].sawReset

\* C27: with spread set, a wait() call resolves only when every earlier
\* grant lies at least period / limit back in clock time, also when several
\* waiters poll concurrently.
C27_SpreadSpacing ==
    [][rlSpec.spread /\ RlGranted(rlw, rlw') # {} =>
        \A i \in 1..Len(rlHist.recent) :
            rlHist.recent[i] * rlSpec.limit >= rlSpec.period]_vars

\* spread with period / limit = 1.5 ticks: two concurrent calls, the second
\* slept and was granted two ticks after the first
C27_Witness ==
    /\ rlSpec = [limit |-> 2, period |-> 3, spread |-> TRUE]
    /\ rlHist.recent = <<2, 0>>
    /\ rlw[1].st = "done" /\ ~rlw[1].slept
    /\ rlw[2].st = "done" /\ rlw[2].slept

\* a wait() call that was made and has not resolved
RlPending(w) == rlw[w].st = "sleeping"

\* C26: without spread, of the wait() calls made on a fresh limiter the first
\* limit resolve without sleeping and the others sleep; a call that slept
\* resolves only once the period it blocked in has elapsed and a reset was
\* made; and every call resolves in the end as the clock advances.
C26_BurstThenBlock ==
    /\ [](~rlSpec.spread /\ rlHist.fresh =>
            \A w \in RlWaiterIds :
                /\ w <= rlSpec.limit => rlw[w].st \in {"unborn", "done"} /\ ~rlw[w].slept
                /\ w > rlSpec.limit => rlw[w].st \in {"unborn", "sleeping"})
    /\ [][\A w \in RlGranted(rlw, rlw') :
            ~rlSpec.spread /\ RlPending(w) => rl.age > rlSpec.period \/ rlw[w].sawReset]_vars
    /\ \A w \in RlWaiterIds : RlPending(w) ~> rlw[w].st = "done"

\* limit + 1 concurrent calls on a fresh limiter: the last one slept while
\* the period ran and resolved after the reset
C26_Witness ==
    /\ ~rlSpec.spread
    /\ \A w \in RlWaiterIds : w <= rlSpec.limit => rlw[w].st = "done" /\ ~rlw[w].slept
    /\ rlSpec.limit < MaxRlWaiters
    /\ LET w == rlSpec.limit + 1
       IN  rlw[w].st = "done" /\ rlw[w].slept /\ rlw[w].sawReset
    /\ rl.count = 1

\* ------------------------------------------------- Queue taskDone / join
\* the test taskDone(count) makes before it decrements
TaskDoneThrowsBug(q, n) == q.unfinishedTasks - n < -1
TaskDoneThrows(q, n) == q.unfinishedTasks - n < 0

\* the loop of Event.set() over _waiting: the Future of every join() waiting
\* on _finished is resolved
JoinWokenBug(js) == js
JoinWoken(js) == [k \in JoinIds |-> IF js[k] = "waiting" THEN "woken" ELSE js[k]]

\* q.taskDone(n)
QTaskDone(n) ==
    /\ td' = [n |-> n, before |-> unfinishedTasks, threw |-> TaskDoneThrows(QueueState, n)]
    /\ IF TaskDoneThrows(QueueState, n)
       THEN UNCHANGED <<unfinishedTasks, finished, jn, tdone>>
       ELSE /\ unfinishedTasks' = unfinishedTasks - n
            /\ tdone' = tdone + n
            /\ IF unfinishedTasks - n = 0 /\ ~finished
               THEN finished' = TRUE /\ jn' = JoinWoken(jn)
               ELSE UNCHANGED <<finished, jn>>
    /\ UNCHANGED <<futVars, lockVars, semVars, condVars, eventVars, dfVars,
                   wqVars, wqHist, rlVars, maxsize, queue, getters, putters,
                   ready, wfut, puts, taken, inserted, order, removed, pqVars, errVars>>

UnbornJoins == {k \in JoinIds : jn[k] = "unborn"}
NewJoin == CHOOSE k \in UnbornJoins : \A l \in UnbornJoins : k <= l

\* q.join() up to its await: _finished.wait() resolves its Future at once
\* when the Event is set
QJoin ==
    /\ UnbornJoins # {}
    /\ jn' = [jn EXCEPT ![NewJoin] =
                IF unfinishedTasks > 0
                THEN (IF finished THEN "woken" ELSE "waiting")
                ELSE "done"]
    /\ UNCHANGED <<futVars, lockVars, semVars, queueVars, condVars, eventVars,
                   dfVars, wqVars, wqHist, rlVars, tdone, td, pqVars, errVars>>

\* the continuation of `await this._finished.wait()`: join() returns
QJoinResume(k) ==
    /\ jn[k] = "woken"
    /\ jn' = [jn EXCEPT ![k] = "done"]
    /\ UNCHANGED <<futVars, lockVars, semVars, queueVars, condVars, eventVars,
                   dfVars, wqVars, wqHist, rlVars, tdone, td, pqVars, errVars>>

\* the put and get calls made next to taskDone() and join()
TaskPutGet ==
    /\ Calls < MaxTaskCalls
    /\ \/ QPut
       \/ QPutNoWait
       \/ QWait("get", 1)

NextTasks ==
    \/ TaskPutGet
    \/ QPutResume
    \/ QGetNoWait
    \/ \E n \in 0..MaxCount : QTaskDone(n)
    \/ QJoin
    \/ \E k \in JoinIds : QJoinResume(k)

SpecTasks == InitQueue /\ [][NextTasks]_vars

\* a join() whose Future has resolved returns
SpecTasksFair == SpecTasks /\ \A k \in JoinIds : WF_vars(QJoinResume(k))

\* C29: unfinishedTasks is never negative and is the number of items put less
\* the counts taskDone() accepted; the finished Event is set exactly when it
\* is 0; taskDone(n) fails exactly when n exceeds the counter, and then
\* leaves the counter and the Event as they were.
C29_TaskAccounting ==
    /\ [](/\ unfinishedTasks >= 0
          /\ unfinishedTasks = inserted - tdone
          /\ finished <=> unfinishedTasks = 0
          /\ td.threw <=> td.n > td.before)
    /\ [][td'.threw /\ td' # td =>
            unfinishedTasks' = unfinishedTasks /\ finished' = finished]_vars

\* two items were put, taskDone() accounted for both and a third
\* taskDone(1) has failed
C29_Witness ==
    /\ inserted = 2
    /\ tdone = 2
    /\ td = [n |-> 1, before |-> 0, threw |-> TRUE]
    /\ finished

\* C28: whatever the puts and gets, once taskDone() has accounted for every
\* item that was put no join() is left waiting and every join() made returns;
\* a join() called while unfinishedTasks > 0 waits, and leaves the wait only
\* in a step that brings unfinishedTasks to 0.
C28_JoinResolves ==
    /\ [](tdone = inserted => \A k \in JoinIds : jn[k] # "waiting")
    /\ [][\A k \in JoinIds :
            /\ jn[k] = "unborn" /\ unfinishedTasks > 0 => jn'[k] \in {"unborn", "waiting"}
            /\ jn[k] = "waiting" /\ jn'[k] # "waiting" =>
                    unfinishedTasks > 0 /\ unfinishedTasks' = 0]_vars
    /\ \A k \in JoinIds :
            (jn[k] # "unborn" /\ tdone = inserted) ~> jn[k] = "done"

\* two items were put and a join() waited; taskDone() was called once for
\* each item and the second call resolved the Future of the join()
C28_Witness ==
    /\ inserted = 2
    /\ tdone = 2
    /\ td = [n |-> 1, before |-> 1, threw |-> FALSE]
    /\ jn[1] = "woken"

\* ------------------------------------------------------- Queue ordering
\* the get() and getAll() calls still waiting for an item
PendingGets ==
    {getters[i].w : i \in {j \in 1..Len(getters) :
        /\ ~getters[j].done
        /\ getters[j].kind \in {"get", "getAll"}
        /\ wfut[getters[j].w].st = "pending"}}

\* the waiters that were handed items
Served == {w \in WaiterIds : wfut[w].st = "resolved" /\ wfut[w].result # <<>>}

\* C30: items leave the buffer in the order they entered it, and pending
\* get() Futures are served in the order of the calls: no call is served
\* while an earlier one is still waiting, and an earlier call receives
\* earlier items.
C30_FifoOrder ==
    /\ order = removed \o queue
    /\ \A h \in Served : \A g \in PendingGets : h < g
    /\ \A g, h \in Served :
            g < h => \A i \in 1..Len(wfut[g].result), k \in 1..Len(wfut[h].result) :
                        \E a, b \in 1..Len(order) :
                            /\ a < b
                            /\ order[a] = wfut[g].result[i]
                            /\ order[b] = wfut[h].result[k]

\* ---------------------------------------------------- Queue.wait threshold
\* the waiters whose Future this step resolves
NowResolved == {w \in WaiterIds : wfut[w].st # "resolved" /\ wfut'[w].st = "resolved"}

\* the live getter Futures in gs that belong to waiter w
GettersOf(gs, w) == {i \in 1..Len(gs) : gs[i].w = w /\ ~gs[i].done}

\* C33: the Future of wait({size: n}) is resolved only when the queue holds
\* at least n items, resolving it takes nothing out of the buffer, and a
\* waiter that is still pending after a step always has a fresh getter in
\* _getters: a woken getter that finds fewer than n items re-arms.
C33_WaitThreshold ==
    /\ [](\A w \in WaiterIds :
            wfut[w].st = "pending" => Cardinality(GettersOf(getters, w)) = 1)
    /\ [][\A w \in NowResolved :
            /\ Len(queue') + (Len(removed') - Len(removed)) >= wfut'[w].size
            /\ wfut'[w].kind = "wait" =>
                    /\ removed' = removed
                    /\ Len(queue') >= Len(queue)]_vars
    /\ [][\A w \in WaiterIds :
            (wfut[w].st = "pending" /\ wfut'[w].st = "pending"
                /\ inserted' > inserted /\ Len(queue') < wfut[w].size)
            => GettersOf(getters', w) # {}]_vars

\* wait({size: 2}) on an empty queue: the first put woke its getter, which
\* found one item and re-armed; the second put resolved the waiter with both
\* items still in the buffer
C33_Witness ==
    \E w \in WaiterIds :
        /\ wfut[w].kind = "wait" /\ wfut[w].size = 2
        /\ wfut[w].st = "resolved"
        /\ wfut[w].born = 0 /\ wfut[w].at = 2
        /\ Len(queue) = 2 /\ removed = <<>>

\* ------------------------------------------------------- PriorityQueue
\* Array.prototype.sort with the comparators of _put, which order by
\* descending key: a stable sort (ECMAScript 2019), computed by insertion.
\* SortInsert places e behind every entry whose key is not smaller.
SortInsert(sorted, e) ==
    LET k == Cardinality({i \in 1..Len(sorted) : sorted[i].prio >= e.prio})
    IN  SubSeq(sorted, 1, k) \o <<e>> \o SubSeq(sorted, k + 1, Len(sorted))

RECURSIVE SortDesc(_)
SortDesc(sq) ==
    IF sq = <<>> THEN <<>>
    ELSE SortInsert(SortDesc(SubSeq(sq, 1, Len(sq) - 1)), sq[Len(sq)])

\* queues.mjs: PriorityQueue._put pushes and sorts
PqPutSort(q, e) == SortDesc(Append(q, e))

\* locks.mjs: PriorityQueue._put pushes a new lowest key, unshifts a new
\* highest key, and pushes and sorts otherwise
PqPutPush(q, e) == Append(q, e)
PqPutShortcut(q, e) ==
    IF q = <<>> \/ e.prio < q[Len(q)].prio THEN Append(q, e)
    ELSE IF e.prio > q[1].prio THEN <<e>> \o q
    ELSE SortDesc(Append(q, e))

\* PriorityQueue._get: this._queue.pop()
PqGetEntry(q) == q[Len(q)]

\* items are numbered in the order they are put
PqCount == Len(pq) + Len(pqOut)

\* q.putNoWait(item, prio) on an unbounded PriorityQueue without waiters
PqPut(k) ==
    /\ PqCount < MaxPqItems
    /\ LET e == [prio |-> k, item |-> PqCount + 1]
       IN  pq' = IF pqRev = "sort" THEN PqPutSort(pq, e) ELSE PqPutShortcut(pq, e)
    /\ UNCHANGED <<futVars, lockVars, semVars, queueVars, condVars, eventVars,
                   dfVars, wqVars, wqHist, rlVars, taskVars, pqOut, pqRev, errVars>>

\* q.getNoWait()
PqGet ==
    /\ pq # <<>>
    /\ pqOut' = Append(pqOut, PqGetEntry(pq))
    /\ pq' = SubSeq(pq, 1, Len(pq) - 1)
    /\ UNCHANGED <<futVars, lockVars, semVars, queueVars, condVars, eventVars,
                   dfVars, wqVars, wqHist, rlVars, taskVars, pqRev, errVars>>

InitPrio ==
    /\ fut = [f \in FutIds |-> "unborn"]
    /\ resumed = {}
    /\ locked = FALSE
    /\ waiting = <<>>
    /\ queued = {}
    /\ released = {}
    /\ birth = [f \in FutIds |-> 0]
    /\ initValue = 1
    /\ value = initValue
    /\ waiters = <<>>
    /\ releases = 0
    /\ maxsize = 0
    /\ queue = <<>>
    /\ getters = <<>>
    /\ putters = <<>>
    /\ ready = <<>>
    /\ unfinishedTasks = 0
    /\ finished = TRUE
    /\ wfut = [w \in WaiterIds |-> NoWaiter]
    /\ puts = [c \in ItemIds |-> "unborn"]
    /\ taken = {}
    /\ inserted = 0
    /\ order = <<>>
    /\ removed = <<>>
    /\ CondInit
    /\ EventInit
    /\ DfInit
    /\ WqInit
    /\ WqHistInit
    /\ RlInit
    /\ TaskInit
    /\ \E rev \in {"sort", "shortcut"} : PqEmpty(rev)
    /\ ErrInit

NextPrio ==
    \/ \E k \in 1..MaxPrio : PqPut(k)
    \/ PqGet

SpecPrio == InitPrio /\ [][NextPrio]_vars

C32_StableTies ==
    [][Len(pqOut') > Len(pqOut) =>
        \A i \in 1..Len(pq) :
            pq[i].prio = pqOut'[Len(pqOut')].prio =>
                pqOut'[Len(pqOut')].item <= pq[i].item]_vars

\* ------------------------------------------------- non-waiting Queue calls
\* q.putNoWait(item) on a full queue: it throws QueueFull and the item stays
\* with the caller
QPutNoWaitFull ==
    /\ UnbornItems # {}
    /\ Full(QueueState)
    /\ Store(PutNoWaitCall(QueueState, NewItem))
    /\ UNCHANGED <<futVars, lockVars, semVars, condVars, maxsize, puts, taken, eventVars, dfVars, wqVars, wqHist, rlVars, taskVars, pqVars>>

\* q.getNoWait() on an empty queue: it throws QueueEmpty
QGetNoWaitEmpty ==
    /\ queue = <<>>
    /\ Store(GetNoWaitCall(QueueState))
    /\ UNCHANGED <<futVars, lockVars, semVars, condVars, maxsize, puts, taken, eventVars, dfVars, wqVars, wqHist, rlVars, taskVars, pqVars>>

\* the queue with its put and get calls and the non-waiting calls that throw
NextQueueErr ==
    \/ QPut
    \/ QPutResume
    \/ QPutNoWait
    \/ QPutNoWaitFull
    \/ \E n \in 1..MaxThreshold : QWait("wait", n)
    \/ QWait("get", 1)
    \/ QGetNoWait
    \/ QGetNoWaitEmpty
    \/ QGetAllNoWait

SpecQueueErr == InitQueue /\ [][NextQueueErr]_vars

\* C34: putNoWait on a full queue throws QueueFull, getNoWait on an empty
\* queue throws QueueEmpty, and a call that throws leaves the buffer,
\* unfinishedTasks, the finished Event and both waiter lists as they were:
\* no waiter is woken.
C34_FailWithoutEffect ==
    /\ [](qerr = "QueueFull" => Full(QueueState))
    /\ [](qerr = "QueueEmpty" => queue = <<>>)
    /\ [][(Full(QueueState) => inserted' = inserted)
            /\ (queue = <<>> => taken' = taken)]_vars
    /\ [][qerr' # "none" =>
            UNCHANGED <<queue, unfinishedTasks, finished, getters, putters,
                        ready, wfut, puts, taken, inserted, removed>>]_vars

\* getNoWait() threw QueueEmpty on a drained bounded queue while one put()
\* was still suspended and another woken
C34_Witness ==
    /\ qerr = "QueueEmpty"
    /\ putters # <<>>
    /\ ready # <<>>

\* ------------------------------------------------ calls on an unheld lock
\* C35: while the lock is not held, release(), wait(), notify() and
\* notifyAll() throw an Error and change neither the locked flag nor a waiter
\* list: no waiter is woken and none is registered.  A step from an unlocked
\* state that neither creates nor cancels a Future is one of these calls.
C35_UnheldCallsFail ==
    /\ [][(~LockLocked /\ fut' = fut /\ cf' = cf) =>
            /\ condRaised' = "Error"
            /\ UNCHANGED <<locked, waiting, cwaiting, cw, released>>]_vars
    /\ [][\A c \in WaitIds : (cf[c] = "unborn" /\ cf'[c] # "unborn") => LockLocked]_vars
    /\ [][\A c \in WaitIds : (cw[c] = "pending" /\ cw'[c] = "resolved") => LockLocked]_vars

\* a call threw on the unheld lock while a wait() was registered and pending
C35_Witness ==
    /\ condRaised = "Error"
    /\ ~LockLocked
    /\ \E c \in WaitIds : cw[c] = "pending" /\ cf[c] = "pending"
    /\ cwaiting # <<>>

\* ------------------------------------------- bounded Queue with producers
\* new Queue(maxsize) with maxsize > 0
InitBounded ==
    /\ fut = [f \in FutIds |-> "unborn"]
    /\ resumed = {}
    /\ locked = FALSE
    /\ waiting = <<>>
    /\ queued = {}
    /\ released = {}
    /\ birth = [f \in FutIds |-> 0]
    /\ initValue = 1
    /\ value = initValue
    /\ waiters = <<>>
    /\ releases = 0
    /\ maxsize \in 1..MaxCapacity
    /\ queue = <<>>
    /\ getters = <<>>
    /\ putters = <<>>
    /\ ready = <<>>
    /\ unfinishedTasks = 0
    /\ finished = TRUE
    /\ wfut = [w \in WaiterIds |-> NoWaiter]
    /\ puts = [c \in ItemIds |-> "unborn"]
    /\ taken = {}
    /\ inserted = 0
    /\ order = <<>>
    /\ removed = <<>>
    /\ CondInit
    /\ EventInit
    /\ DfInit
    /\ WqInit
    /\ WqHistInit
    /\ RlInit
    /\ TaskInit
    /\ PqInit
    /\ ErrInit

\* producers calling put() and consumers draining the queue
NextBounded ==
    \/ QPut
    \/ QPutResume
    \/ QGetNoWait
    \/ QGetAllNoWait
    \/ QWait("getAll", 1)

SpecBounded == InitBounded /\ [][NextBounded]_vars

\* C36: when no woken putter is still waiting to resume, a put() is
\* suspended only if the queue is full; the puts suspended on a full queue
\* that getAll() drains go through, as far as they fit, without another get.
C36_NoStrandedPutter ==
    (ready = <<>> /\ putters # <<>>) => Full(QueueState)

\* C37: items enter the buffer in the order their put() / putNoWait() calls
\* were made (items are numbered in call order): the i-th insertion is the
\* item of the i-th call, so a put() that suspended is not overtaken.
C37_ProducerOrder ==
    \A i \in 1..Len(order) : order[i] = i

\* ------------------------------------------------------ item conservation
\* how often item c occurs in sequence sq
Occurs(sq, c) == Cardinality({i \in 1..Len(sq) : sq[i] = c})

\* how often item c was handed to a consumer: as the result of a resolved
\* get() / getAll() Future or by a direct getNoWait() / getAllNoWait()
Handed(c) ==
    LET res == {w \in WaiterIds : wfut[w].st = "resolved" /\ Occurs(wfut[w].result, c) > 0}
    IN  (IF \E w \in res : Occurs(wfut[w].result, c) > 1 THEN 2 ELSE Cardinality(res))
        + (IF c \in taken THEN 1 ELSE 0)

\* C38: every item put/putNoWait accepted is either in the buffer, once, or
\* has been handed to exactly one get() / getNoWait() / getAll(); an item not
\* accepted is nowhere.
C38_ItemConservation ==
    \A c \in ItemIds :
        /\ Occurs(order, c) <= 1
        /\ Occurs(queue, c) + Occurs(removed, c) = Occurs(order, c)
        /\ Handed(c) = Occurs(removed, c)

\* a get() was cancelled while pending; putNoWait then handed item 1 to the
\* next pending get() inside the call, and a second item is in the buffer
C38_Witness ==
    \E v, w \in WaiterIds :
        /\ v < w
        /\ wfut[v].st = "cancelled" /\ wfut[v].kind = "get"
        /\ wfut[w].st = "resolved" /\ wfut[w].kind = "get"
        /\ wfut[w].born = 0 /\ wfut[w].at = 1 /\ wfut[w].result = <<1>>
        /\ queue = <<2>>

\* ------------------------------------------------- Semaphore: no stranding
\* the acquire() Futures still waiting for a permit
SemUnserved == {f \in queued : fut[f] = "pending"}

\* C39: while a permit is available no acquire() waiter is pending, whatever
\* the order of acquire, release and cancellation.
C39_NoStrandedWaiter == value > 0 => SemUnserved = {}

\* acquire() f and g queued on an exhausted semaphore, f was cancelled, a
\* release passed over f and granted g, and another release left a permit
C39_Witness ==
    \E f, g \in queued :
        /\ f < g
        /\ fut[f] = "cancelled" /\ fut[g] = "resolved"
        /\ \A h \in queued : h \in {f, g}
        /\ value = 1

\* ------------------------------------------- cancelling Condition.wait()
\* C40: cancel() on the pending Future of wait() raises nothing and leaves
\* the locked flag as it is, so the lock is never taken for the cancelled
\* waiter: whenever no acquire() holds the lock, locked() is false.
C40_CancelLeaksNoLock ==
    /\ [](Held = {} => ~LockLocked)
    /\ [][\A c \in WaitIds : (cf[c] = "pending" /\ cf'[c] = "cancelled") =>
            /\ locked' = locked
            /\ condRaised' = "none"]_vars

====
